---------------------------- MODULE Spec2Model ----------------------------
(***************************************************************************)
(* A model of the ragaz compiler core: the CFG builder (ast_passes/flow),  *)
(* the Uses/Moves checker (cfg_passes/uses), the Destructor Inserter       *)
(* (cfg_passes/destructions), the Escapes Analyser (cfg_passes/escapes),   *)
(* the Expressions Evaluator (ast_passes/expressions), the pass pipeline    *)
(* and the module order (compiler.py, util.py), the overload selection,    *)
(* the trait compatibility and the type compatibility of the type system   *)
(* (types_.py), and the vtable layout of the code generator                *)
(* (cfg_passes/code_generation).                                           *)
(*                                                                         *)
(* Python objects are modelled by identity: every Block and every step is  *)
(* an entry of a heap (bh, nodes) and is referred to by its index; 0 is    *)
(* Python's None.  A pass is an operator that threads the pass object's    *)
(* fields through the visit methods in the order the code runs them.       *)
(***************************************************************************)
EXTENDS Integers, Sequences, FiniteSets, TLC

VARIABLES
    phase,   \* which pass has been applied to the function
    ast,     \* the function under compilation: its suite, arguments, types
    fl,      \* FlowFinder's fields and the function's Flow
    uc,      \* UsesChecker's fields
    de,      \* Destructor's fields
    ex,      \* a run of the compiled function: where it is in the CFG, and
             \* what its bindings hold there
    es,      \* EscapesAnalyser's fields
    pl,      \* the modules, their functions and the pass being run over them
    ty       \* a query to the type system and its answer

vars == <<phase, ast, fl, uc, de, ex, es, pl, ty>>

None == 0

(***************************************************************************)
(* Expressions (ast_.py).  An atom is what deconstruct() leaves behind.    *)
(* pos is the node's source position, None for a node the compiler made;    *)
(* cm is check_move; own[i] tells whether the i-th formal of the called     *)
(* function has a heap-owner type (node.fn.type.over["args"]).              *)
(***************************************************************************)
NoExpr == [e |-> "none"]
Sym(n) == [e |-> "sym", n |-> n, cm |-> FALSE, pos |-> None]
IntLit == [e |-> "int"]
StrLit == [e |-> "str", pos |-> None]
Ref(v) == [e |-> "ref", v |-> v, pos |-> None]
Attr(o, f) == [e |-> "attr", o |-> o, f |-> f, cm |-> FALSE, pos |-> None]
Call(args, own) == [e |-> "call", args |-> args, own |-> own, pos |-> None]
Tern(c, a, b) == [e |-> "tern", c |-> c, a |-> a, b |-> b, pos |-> None]

\* the node e as read at source position p
At(e, p) == [e EXCEPT !.pos = p]

ATOMIC == {"none", "int", "sym", "attr"}

HiddenName(n) == "hidden$" \o ToString(n)

(***************************************************************************)
(* Steps of a block.  One record shape for every step class; the fields a  *)
(* class does not have stay at their defaults.                             *)
(***************************************************************************)
Nd(k) ==
    [k |-> k, id |-> 0, tgt |-> None, fls |-> None, fail |-> None, map |-> None,
     cb |-> FALSE, cbn |-> None, cbe |-> None,
     left |-> NoExpr, right |-> NoExpr, val |-> NoExpr]

FINAL == {"Return", "Raise", "Yield", "Branch", "CondBranch", "LandingPad", "Resume"}

(***************************************************************************)
(* Block and Flow                                                          *)
(***************************************************************************)
BlockSteps(st, b) == st.bh[b].steps

\* Block.push_step
push_step(st, b, node) ==
    [st EXCEPT !.nodes = Append(@, [node EXCEPT !.id = Len(st.bh[b].steps)]),
               !.bh[b].steps = Append(@, Len(st.nodes) + 1)]

\* for id, step in enumerate(self.steps): step.id = id
Renumber(nodes, steps) ==
    [o \in 1..Len(nodes) |->
        IF \E i \in 1..Len(steps) : steps[i] = o
        THEN [nodes[o] EXCEPT !.id = (CHOOSE i \in 1..Len(steps) : steps[i] = o) - 1]
        ELSE nodes[o]]

\* sorted(seq, key=...): a stable sort of the references in seq by key[x]
RECURSIVE SortedBy(_, _)
SortedBy(seq, key) ==
    IF seq = <<>> THEN <<>>
    ELSE LET rest == SortedBy(Tail(seq), key)
             x == Head(seq)
             n == Cardinality({i \in 1..Len(rest) : key[rest[i]] < key[x]})
         IN  SubSeq(rest, 1, n) \o <<x>> \o SubSeq(rest, n + 1, Len(rest))

\* sorted(block.steps, key=lambda stp: stp.id)
sorted_steps(st, b) == SortedBy(st.bh[b].steps, [o \in 1..Len(st.nodes) |-> st.nodes[o].id])

\* sorted(fn.flow.blocks, key=lambda blk: blk.id)
sorted_blocks(st) == SortedBy(st.blocks, [b \in 1..Len(st.bh) |-> st.bh[b].id])

LastOid(st) == Len(st.nodes)

RECURSIVE LastNonEndScope(_, _, _)
LastNonEndScope(nodes, steps, i) ==
    IF i = 0 THEN None
    ELSE IF nodes[steps[i]].k # "EndScope" THEN steps[i]
    ELSE LastNonEndScope(nodes, steps, i - 1)

\* Block.last_step
last_step(st, b) == LastNonEndScope(st.nodes, sorted_steps(st, b), Len(st.bh[b].steps))

\* Block.need_branch
need_branch(st, b) ==
    LET ls == last_step(st, b)
    IN  Len(st.bh[b].steps) = 0
        \/ ~((ls # None /\ st.nodes[ls].k \in FINAL)
             \/ (ls # None /\ st.nodes[ls].k = "Call" /\ st.nodes[ls].cb))

IndexOf(seq, x) == CHOOSE i \in 1..Len(seq) : seq[i] = x /\ \A j \in 1..(i - 1) : seq[j] # x

InsertAt(seq, i, x) == SubSeq(seq, 1, i - 1) \o <<x>> \o SubSeq(seq, i, Len(seq))

\* Block.insert_step: the new node goes before previous_node, or before the
\* step in front of it when previous_node is an EndScope that follows a FINAL
\* step.  With previous_node first in the list Python reads steps[-1] and
\* calls insert(-1, node), which inserts before the last step.
insert_step(st, b, prev, node) ==
    LET steps == st.bh[b].steps
        idx == IndexOf(steps, prev)
        before == IF idx = 1 THEN steps[Len(steps)] ELSE steps[idx - 1]
        back == st.nodes[prev].k = "EndScope" /\ Len(steps) > 1
                /\ st.nodes[before].k \in FINAL
        pos == IF ~back THEN idx
               ELSE IF idx = 1 THEN Len(steps) ELSE idx - 1
        newsteps == InsertAt(steps, pos, Len(st.nodes) + 1)
    IN  [st EXCEPT !.nodes = Renumber(Append(@, node), newsteps),
                   !.bh[b].steps = newsteps]

\* Flow.create_block
create_block(st, ann) ==
    [st EXCEPT !.bh = Append(@, [id |-> Len(st.blocks), ann |-> ann, steps |-> <<>>]),
               !.blocks = Append(@, Len(st.bh) + 1)]

LastBlock(st) == Len(st.bh)

\* Flow.remove_block
remove_block(st, b) ==
    [st EXCEPT !.blocks = SelectSeq(@, LAMBDA x : x # b)]


(***************************************************************************)
(* FlowFinder (ast_passes/flow.py).  st holds the pass object's fields:    *)
(*   bh, nodes  the Block objects and step objects created so far          *)
(*   blocks     fn.flow.blocks, a list of Block references                 *)
(*   curr       self.curr_block                                            *)
(*   loops      the enclosing While nodes' loop_jumpers, innermost last    *)
(*              (self.curr_loop is the last one, None when empty)          *)
(*   tries      potential_raiser_calls of the enclosing TryBlocks whose    *)
(*              suite is being visited (self.curr_try is the last one)     *)
(*   sfx        fn.suffix_count                                            *)
(*   crash      the Python exception that ended the pass, "" when none     *)
(*   res        the value the last visit method returned                   *)
(***************************************************************************)
FlowInit ==
    [bh |-> <<>>, blocks |-> <<>>, nodes |-> <<>>, curr |-> None,
     loops |-> <<>>, tries |-> <<>>, sfx |-> 0, crash |-> "", res |-> NoExpr]

Crash(st, why) == [st EXCEPT !.crash = IF @ = "" THEN why ELSE @]

SetCurr(st, b) == [st EXCEPT !.curr = b]

\* FlowFinder.check_move_or_copy
flow_check_move_or_copy(e) ==
    IF e.e \in {"sym", "attr"} THEN [e EXCEPT !.cm = TRUE] ELSE e

\* FlowFinder.check_call
check_call(st, oid) ==
    IF st.tries # <<>>
    THEN LET s1 == create_block(st, "try-continue")
             nb == LastBlock(s1)
         IN  [s1 EXCEPT !.curr = nb,
                        !.sfx = @ + 1,
                        !.nodes[oid].cb = TRUE,
                        !.nodes[oid].cbn = nb,
                        !.nodes[oid].cbe = None,
                        !.tries[Len(st.tries)] = Append(@, oid)]
    ELSE st

\* prevcond_block.last_step().is_false_block = target
set_false_block(st, b, target) ==
    IF b = None THEN Crash(st, "AttributeError")
    ELSE LET ls == last_step(st, b)
         IN  IF ls = None THEN Crash(st, "AttributeError")
             ELSE [st EXCEPT !.nodes[ls].fls = target]

RECURSIVE PatchTargets(_, _, _)
PatchTargets(nodes, oids, target) ==
    IF oids = <<>> THEN nodes
    ELSE PatchTargets([nodes EXCEPT ![Head(oids)].tgt = target], Tail(oids), target)

RECURSIVE PatchException(_, _, _)
PatchException(nodes, oids, target) ==
    IF oids = <<>> THEN nodes
    ELSE PatchException([nodes EXCEPT ![Head(oids)].cbe = target], Tail(oids), target)

RECURSIVE BranchExits(_, _, _)
\* for block in exits: if block.need_branch(): block.push_step(Branch(exit_block))
BranchExits(st, exits, exit) ==
    IF exits = <<>> THEN st
    ELSE LET b == Head(exits)
             s1 == IF need_branch(st, b)
                   THEN push_step(st, b, [Nd("Branch") EXCEPT !.tgt = exit])
                   ELSE st
         IN  BranchExits(s1, Tail(exits), exit)

\* a local variable of a method: v is evaluated once and named in f
Bind(v, f(_)) == f(v)

RECURSIVE deconstruct(_, _)
RECURSIVE visit_expr(_, _)
RECURSIVE deconstruct_args(_, _, _)
RECURSIVE visit_ternary(_, _)
RECURSIVE visit_statement(_, _)
RECURSIVE visit_statements(_, _)
RECURSIVE visit_suite(_, _)
RECURSIVE visit_if_cond(_, _, _)
RECURSIVE visit_if_parts(_, _, _, _)
RECURSIVE visit_if(_, _)
RECURSIVE visit_while(_, _)
RECURSIVE visit_tryblock(_, _)
RECURSIVE visit_variabledeclaration(_, _)

\* FlowFinder.deconstruct
deconstruct(st, e) ==
    IF st.crash # "" THEN st
    ELSE IF e.e \in ATOMIC THEN visit_expr(st, e)
    ELSE LET left == [Sym(HiddenName(st.sfx)) EXCEPT !.pos = e.pos] IN
         Bind(visit_expr([st EXCEPT !.sfx = @ + 1], e), LAMBDA s1 :
         IF s1.crash # "" THEN s1 ELSE
         Bind(push_step(s1, s1.curr, [Nd("Assign") EXCEPT !.left = left, !.right = s1.res]),
              LAMBDA s2 :
         [(IF s1.res.e = "call" THEN check_call(s2, LastOid(s2)) ELSE s2)
              EXCEPT !.res = left]))

\* visit_call's loop over node.args
deconstruct_args(st, args, done) ==
    IF args = <<>> \/ st.crash # "" THEN [st EXCEPT !.res = [e |-> "args", args |-> done]]
    ELSE Bind(deconstruct(st, flow_check_move_or_copy(Head(args))), LAMBDA s1 :
         deconstruct_args(s1, Tail(args), Append(done, s1.res)))

\* FlowFinder.visit_ternary
visit_ternary(st, e) ==
    LET entry == st.curr IN
    Bind(deconstruct(st, e.c), LAMBDA s1 :
    Bind(create_block(s1, "ternary-left"), LAMBDA s2 :
    LET left_block == LastBlock(s2) IN
    Bind(deconstruct(SetCurr(s2, left_block), e.a), LAMBDA s3 :
    Bind(create_block(s3, "ternary-right"), LAMBDA s4 :
    LET right_block == LastBlock(s4) IN
    Bind(deconstruct(SetCurr(s4, right_block), e.b), LAMBDA s5 :
    IF s5.crash # "" THEN s5 ELSE
    Bind(push_step(s5, entry, [Nd("CondBranch") EXCEPT !.val = s1.res, !.tgt = left_block,
                                                       !.fls = right_block]), LAMBDA s6 :
    Bind(create_block(s6, "ternary-exit"), LAMBDA s7 :
    LET exit_block == LastBlock(s7) IN
    Bind(push_step(SetCurr(s7, exit_block), left_block,
                   [Nd("Branch") EXCEPT !.tgt = exit_block]), LAMBDA s8 :
    Bind(push_step(s8, right_block, [Nd("Branch") EXCEPT !.tgt = exit_block]), LAMBDA s9 :
    [s9 EXCEPT !.res = [e |-> "phi", lb |-> left_block, lv |-> s3.res,
                        rb |-> right_block, rv |-> s5.res]])))))))))

\* FlowFinder.visit, for expression nodes
visit_expr(st, e) ==
    IF st.crash # "" THEN st
    ELSE CASE e.e \in {"none", "int", "str", "sym"} -> [st EXCEPT !.res = e]
      [] e.e = "attr" ->       \* visit_attribute
            Bind(deconstruct(st, e.o), LAMBDA s1 : [s1 EXCEPT !.res = [e EXCEPT !.o = s1.res]])
      [] e.e = "ref" ->        \* visit_reference: unary_op
            Bind(deconstruct(st, e.v), LAMBDA s1 : [s1 EXCEPT !.res = [e EXCEPT !.v = s1.res]])
      [] e.e = "call" ->       \* visit_call
            Bind(deconstruct_args(st, e.args, <<>>), LAMBDA s1 :
                 [s1 EXCEPT !.res = [e EXCEPT !.args = s1.res.args]])
      [] e.e = "tern" -> visit_ternary(st, e)

\* one turn of the loop of FlowFinder.visit_if up to the part's suite: the
\* state, suite_block and the new prevcond_block
visit_if_cond(st, part, prevcond) ==
    IF part.cond.e # "none"
    THEN IF prevcond = None
         THEN Bind(create_block(st, "if-suite"), LAMBDA s1 :
              LET suite_block == LastBlock(s1) IN
              \* the block the CondBranch goes to is evaluated before its argument
              Bind(deconstruct(s1, part.cond), LAMBDA s2 :
              [s |-> IF s2.crash # "" THEN s2
                     ELSE push_step(s2, s1.curr, [Nd("CondBranch") EXCEPT !.val = s2.res,
                                                                          !.tgt = suite_block]),
               sb |-> suite_block, pc |-> s2.curr]))
         ELSE Bind(create_block(st, "if-cond"), LAMBDA s1 :
              LET cond_block == LastBlock(s1) IN
              Bind(set_false_block(SetCurr(s1, cond_block), prevcond, cond_block), LAMBDA s2 :
              Bind(create_block(s2, "if-suite"), LAMBDA s3 :
              LET suite_block == LastBlock(s3) IN
              Bind(deconstruct(s3, part.cond), LAMBDA s4 :
              [s |-> IF s2.crash # "" THEN s2
                     ELSE IF s4.crash # "" THEN s4
                     ELSE push_step(s4, cond_block, [Nd("CondBranch") EXCEPT !.val = s4.res,
                                                                             !.tgt = suite_block]),
               sb |-> suite_block, pc |-> s4.curr]))))
    ELSE Bind(create_block(st, "if-suite"), LAMBDA s1 :
         [s |-> set_false_block(s1, prevcond, LastBlock(s1)), sb |-> LastBlock(s1),
          pc |-> None])

\* the loop of FlowFinder.visit_if over node.parts; the locals prevcond_block
\* and exits are returned in st.res
visit_if_parts(st, parts, prevcond, exits) ==
    IF st.crash # "" THEN st
    ELSE IF parts = <<>>
    THEN [st EXCEPT !.res = [e |-> "locals", prevcond |-> prevcond, exits |-> exits]]
    ELSE Bind(visit_if_cond(st, Head(parts), prevcond), LAMBDA r :
         IF r.s.crash # "" THEN r.s ELSE
         Bind(visit_suite(SetCurr(r.s, r.sb), Head(parts).suite), LAMBDA s6 :
         visit_if_parts(s6, Tail(parts), r.pc,
                        IF s6.crash = "" /\ need_branch(s6, s6.curr)
                        THEN Append(exits, s6.curr) ELSE exits)))

\* FlowFinder.visit_if
visit_if(st, n) ==
    Bind(visit_if_parts(st, n.parts, None, <<>>), LAMBDA s1 :
    IF s1.crash # "" THEN s1 ELSE
    LET prevcond == s1.res.prevcond
        exits == s1.res.exits
    IN
    IF prevcond = None /\ exits = <<>> THEN [s1 EXCEPT !.res = NoExpr] ELSE
    Bind(create_block(s1, "if-exit"), LAMBDA s2 :
    LET exit_block == LastBlock(s2) IN
    Bind(IF prevcond # None
         THEN set_false_block(SetCurr(s2, exit_block), prevcond, exit_block)
         ELSE SetCurr(s2, exit_block), LAMBDA s4 :
    IF s4.crash # "" THEN s4
    ELSE [BranchExits(s4, exits, exit_block) EXCEPT !.res = NoExpr])))

\* FlowFinder.visit_while
visit_while(st, n) ==
    Bind(create_block(st, "while-cond"), LAMBDA s1 :
    LET cond_block == LastBlock(s1) IN
    Bind(push_step(s1, s1.curr, [Nd("Branch") EXCEPT !.tgt = cond_block]), LAMBDA s2 :
    Bind(create_block(SetCurr(s2, cond_block), "while-suite"), LAMBDA s3 :
    LET suite_block == LastBlock(s3) IN
    Bind(deconstruct(s3, n.cond), LAMBDA s4 :
    IF s4.crash # "" THEN s4 ELSE
    Bind(push_step(s4, cond_block, [Nd("CondBranch") EXCEPT !.val = s4.res,
                                                            !.tgt = suite_block]), LAMBDA s5 :
    LET cond_branch == LastOid(s5) IN
    Bind(visit_suite([SetCurr(s5, suite_block) EXCEPT
                          !.loops = Append(@, [brk |-> <<>>, cont |-> <<>>])], n.suite),
         LAMBDA s6 :
    IF s6.crash # "" THEN s6 ELSE
    LET jumpers == s6.loops[Len(s6.loops)] IN
    Bind([s6 EXCEPT !.loops = SubSeq(@, 1, Len(@) - 1)], LAMBDA s7 :
    Bind(push_step(s7, s7.curr, [Nd("Branch") EXCEPT !.tgt = cond_block]), LAMBDA s8 :
    Bind(create_block(s8, "while-exit"), LAMBDA s9 :
    LET exit_block == LastBlock(s9) IN
    [SetCurr(s9, exit_block) EXCEPT
        !.nodes = PatchTargets(PatchTargets([@ EXCEPT ![cond_branch].fls = exit_block],
                                            jumpers.cont, cond_block),
                               jumpers.brk, exit_block),
        !.res = NoExpr])))))))))

\* FlowFinder.visit_break, FlowFinder.visit_continue
visit_break(st, n) ==
    IF st.loops = <<>> THEN Crash(st, "AttributeError")
    ELSE Bind(push_step(st, st.curr, Nd("Branch")), LAMBDA s1 :
         IF n.k = "break"
         THEN [s1 EXCEPT !.loops[Len(st.loops)].brk = Append(@, LastOid(s1)), !.res = NoExpr]
         ELSE [s1 EXCEPT !.loops[Len(st.loops)].cont = Append(@, LastOid(s1)), !.res = NoExpr])

\* FlowFinder.visit_raise
visit_raise(st, n) ==
    Bind(push_step(st, st.curr, [Nd("Raise") EXCEPT !.val = n.val]), LAMBDA s1 :
    [check_call(s1, LastOid(s1)) EXCEPT !.res = NoExpr])

\* the end of FlowFinder.visit_tryblock: the try suite's last block is
\* removed or branches to the exit, and so does the catch block
close_tryblock(s10, calls, last_block_try, catch_block, exit_block) ==
    LET steps == s10.bh[last_block_try].steps
        block_is_empty == Len(steps) = 1 /\ s10.nodes[steps[Len(steps)]].k = "EndScope"
    IN
    Bind(IF s10.bh[last_block_try].ann = "try-continue" /\ block_is_empty
         THEN IF calls = <<>> THEN Crash(s10, "IndexError")
              ELSE remove_block([s10 EXCEPT !.nodes[calls[Len(calls)]].cbn = exit_block],
                                last_block_try)
         ELSE IF need_branch(s10, last_block_try)
         THEN IF steps = <<>> THEN Crash(s10, "IndexError")
              ELSE insert_step(s10, last_block_try, steps[Len(steps)],
                               [Nd("Branch") EXCEPT !.tgt = exit_block])
         ELSE s10, LAMBDA s11 :
    [(IF s11.crash = "" /\ need_branch(s11, catch_block)
      THEN push_step(s11, catch_block, [Nd("Branch") EXCEPT !.tgt = exit_block])
      ELSE s11) EXCEPT !.res = NoExpr])

\* FlowFinder.visit_tryblock
visit_tryblock(st, n) ==
    Bind(visit_suite([st EXCEPT !.tries = Append(@, <<>>)], n.suite), LAMBDA s1 :
    IF s1.crash # "" THEN s1 ELSE
    LET calls == s1.tries[Len(s1.tries)]
        last_block_try == s1.curr
    IN
    Bind(create_block([s1 EXCEPT !.tries = SubSeq(@, 1, Len(@) - 1), !.sfx = @ + 1],
                      "landing-pad"), LAMBDA s3 :
    LET landing_pad_block == LastBlock(s3) IN
    Bind(push_step(s3, landing_pad_block, Nd("LandingPad")), LAMBDA s4 :
    LET landing_pad == LastOid(s4) IN
    Bind(create_block(s4, "catch"), LAMBDA s5 :
    LET catch_block == LastBlock(s5) IN
    Bind(visit_suite(SetCurr(s5, catch_block), n.handler), LAMBDA s6 :
    IF s6.crash # "" THEN s6 ELSE
    Bind(create_block([s6 EXCEPT !.nodes[landing_pad].map = catch_block], "caught-no-match"),
         LAMBDA s7 :
    LET unmatched_block == LastBlock(s7) IN
    Bind(push_step([s7 EXCEPT !.nodes[landing_pad].fail = unmatched_block],
                   unmatched_block, Nd("Resume")), LAMBDA s8 :
    Bind(create_block(s8, "try-exit"), LAMBDA s9 :
    LET exit_block == LastBlock(s9) IN
    close_tryblock([SetCurr(s9, exit_block) EXCEPT
                        !.nodes = PatchException(@, calls, landing_pad_block)],
                   calls, last_block_try, catch_block, exit_block)))))))))

\* FlowFinder.visit_yield
visit_yield(st, n) ==
    Bind(IF n.val.e # "none" THEN deconstruct(st, n.val) ELSE [st EXCEPT !.res = NoExpr],
         LAMBDA s1 :
    IF s1.crash # "" THEN s1 ELSE
    Bind(create_block(s1, "yield-to"), LAMBDA s2 :
    LET next_block == LastBlock(s2) IN
    [SetCurr(push_step(s2, s2.curr, [Nd("Yield") EXCEPT !.val = s1.res, !.tgt = next_block]),
             next_block) EXCEPT !.res = NoExpr]))

\* FlowFinder.visit_return
visit_return(st, n) ==
    Bind(IF n.val.e # "none" THEN deconstruct(st, n.val) ELSE [st EXCEPT !.res = NoExpr],
         LAMBDA s1 :
    IF s1.crash # "" THEN s1
    ELSE [push_step(s1, s1.curr, [Nd("Return") EXCEPT !.val = s1.res]) EXCEPT !.res = NoExpr])

\* FlowFinder.visit_assign
flow_visit_assign(st, n) ==
    Bind(visit_expr(st, flow_check_move_or_copy(n.right)), LAMBDA s1 :
    Bind(visit_expr(s1, n.left), LAMBDA s2 :
    IF s2.crash # "" THEN s2 ELSE
    LET right == s1.res
        left == IF s2.res.e = "attr"
                THEN [s2.res EXCEPT !.e = "setattr", !.cm = FALSE]
                ELSE s2.res
        must_split == right.e = "call" /\ s2.tries # <<>>
        return_var == Sym(HiddenName(s2.sfx))
    IN
    IF must_split
    THEN Bind(push_step([s2 EXCEPT !.sfx = @ + 1], s2.curr,
                        [Nd("Assign") EXCEPT !.left = return_var, !.right = right]),
              LAMBDA s3 :
         Bind(check_call(s3, LastOid(s3)), LAMBDA s4 :
         [push_step(s4, s4.curr, [Nd("Assign") EXCEPT !.left = left, !.right = return_var])
              EXCEPT !.res = NoExpr]))
    ELSE [push_step(s2, s2.curr, [Nd("Assign") EXCEPT !.left = left, !.right = right])
              EXCEPT !.res = NoExpr]))

\* FlowFinder.visit_variabledeclaration
visit_variabledeclaration(st, n) ==
    Bind(push_step(st, st.curr, [Nd("VariableDeclaration") EXCEPT !.left = n.v]), LAMBDA s1 :
    IF n.asg.k = "none" THEN [s1 EXCEPT !.res = NoExpr]
    ELSE [visit_statement(s1, n.asg) EXCEPT !.res = NoExpr])

\* FlowFinder.visit, for statement nodes.  st.res is the node the method
\* returns to visit_suite (NoExpr for None).
visit_statement(st, n) ==
    IF st.crash # "" THEN st
    ELSE CASE n.k = "pass" -> [push_step(st, st.curr, Nd("Pass")) EXCEPT !.res = NoExpr]
      [] n.k = "expr" -> visit_expr(st, n.e)    \* visit_call returns the node
      [] n.k = "if" -> visit_if(st, n)
      [] n.k = "while" -> visit_while(st, n)
      [] n.k \in {"break", "continue"} -> visit_break(st, n)
      [] n.k = "raise" -> visit_raise(st, n)
      [] n.k = "try" -> visit_tryblock(st, n)
      [] n.k = "yield" -> visit_yield(st, n)
      [] n.k = "return" -> visit_return(st, n)
      [] n.k = "var" -> visit_variabledeclaration(st, n)
      [] n.k = "assign" -> flow_visit_assign(st, n)
      [] n.k = "del" ->        \* visit_del returns the node
            Bind(deconstruct(st, n.obj), LAMBDA s1 :
                 [s1 EXCEPT !.res = [e |-> "del", obj |-> s1.res]])

\* the loop of FlowFinder.visit_suite over node.statements
visit_statements(st, stmts) ==
    IF stmts = <<>> \/ st.crash # "" THEN st
    ELSE Bind(visit_statement(st, Head(stmts)), LAMBDA s1 :
         IF s1.crash # "" THEN s1
         ELSE IF s1.res.e = "call"
         THEN Bind(push_step(s1, s1.curr, [Nd("Call") EXCEPT !.right = s1.res]), LAMBDA p :
                   visit_statements(check_call(p, LastOid(p)), Tail(stmts)))
         ELSE IF s1.res.e = "del"
         THEN visit_statements(push_step(s1, s1.curr, [Nd("Del") EXCEPT !.val = s1.res.obj]),
                               Tail(stmts))
         ELSE visit_statements(s1, Tail(stmts)))

\* FlowFinder.visit_suite
visit_suite(st, suite) ==
    IF st.crash # "" THEN st
    ELSE Bind(visit_statements(push_step(st, st.curr, Nd("BeginScope")), suite), LAMBDA s2 :
         IF s2.crash # "" THEN s2
         ELSE push_step(s2, s2.curr, Nd("EndScope")))

\* FlowFinder.visit_function, the part guarded by PASS_NAME not in fn.passes
flow_visit_function(suite) ==
    Bind(create_block(FlowInit, "entry"), LAMBDA s1 :
    Bind(visit_suite(SetCurr(s1, LastBlock(s1)), suite), LAMBDA s2 :
    LET final_block == s2.blocks[Len(s2.blocks)]
        steps == s2.bh[final_block].steps
    IN  IF s2.crash # "" THEN s2
        ELSE IF need_branch(s2, final_block)
        THEN IF steps = <<>> THEN Crash(s2, "IndexError")
             ELSE insert_step(s2, final_block, steps[Len(steps)], Nd("Return"))
        ELSE s2))



(***************************************************************************)
(* Statements (ast_.py) as the parser, the Expression Evaluator and the    *)
(* Implicits pass hand them to the CFG builder.                            *)
(***************************************************************************)
NoStmt == [k |-> "none"]
Pass == [k |-> "pass"]
Break == [k |-> "break"]
Continue == [k |-> "continue"]
Raise == [k |-> "raise", val |-> NoExpr]
Return(v) == [k |-> "return", val |-> v]
Yield(v) == [k |-> "yield", val |-> v]
ExprStmt(e) == [k |-> "expr", e |-> e]
Assign(l, r) == [k |-> "assign", left |-> l, right |-> r]
Var(v, a) == [k |-> "var", v |-> v, asg |-> a]
DelStmt(o) == [k |-> "del", obj |-> o]
Part(c, s) == [cond |-> c, suite |-> s]
If(parts) == [k |-> "if", parts |-> parts]
While(c, s) == [k |-> "while", cond |-> c, suite |-> s]
TryBlock(s, h) == [k |-> "try", suite |-> s, handler |-> h]

\* expressions.JUMPER: visit_suite of the Expression Evaluator drops every
\* statement that follows one of these in its suite
JUMPER == {"return", "raise", "break", "continue", "pass"}

(***************************************************************************)
(* The function bodies the CFG builder is run on: every suite of at most   *)
(* MaxWeight statements (nested ones counted) built from the statement     *)
(* kinds below, in which no statement follows a JUMPER and break/continue  *)
(* occur only inside a loop.                                               *)
(***************************************************************************)
MaxWeight == 3

FlowConds == {Sym("c"), Call(<<>>, <<>>), Tern(Sym("c"), Sym("a"), Sym("b"))}

FlowSimple(inloop) ==
    {ExprStmt(Call(<<>>, <<>>)),
     Assign(Sym("x"), Call(<<>>, <<>>)),
     Assign(Sym("x"), Tern(Sym("c"), Sym("a"), Sym("b"))),
     Yield(NoExpr), Return(NoExpr), Raise, Pass}
    \cup (IF inloop THEN {Break, Continue} ELSE {})

RECURSIVE FlowStmts(_, _)
RECURSIVE FlowSuites(_, _)
\* the statements of exactly w statements
FlowStmts(w, inloop) ==
    IF w < 1 THEN {}
    ELSE IF w = 1 THEN FlowSimple(inloop)
    ELSE {While(c, s) : c \in FlowConds, s \in FlowSuites(w - 1, TRUE)}
         \cup {If(<<Part(c, s)>>) : c \in FlowConds, s \in FlowSuites(w - 1, inloop)}
         \cup UNION {{If(<<Part(c, s), Part(NoExpr, t)>>) :
                          c \in FlowConds, s \in FlowSuites(i, inloop),
                          t \in FlowSuites(w - 1 - i, inloop)} : i \in 1..(w - 2)}
         \cup UNION {{If(<<Part(c, s), Part(d, t)>>) :
                          c \in FlowConds, d \in FlowConds, s \in FlowSuites(i, inloop),
                          t \in FlowSuites(w - 1 - i, inloop)} : i \in 1..(w - 2)}
         \cup UNION {{TryBlock(s, h) : s \in FlowSuites(i, inloop),
                                       h \in FlowSuites(w - 1 - i, inloop)} : i \in 1..(w - 2)}

\* the suites of exactly w statements
FlowSuites(w, inloop) ==
    IF w < 1 THEN {}
    ELSE {<<s>> : s \in FlowStmts(w, inloop)}
         \cup UNION {{<<s>> \o r : s \in {x \in FlowStmts(i, inloop) : x.k \notin JUMPER},
                                   r \in FlowSuites(w - i, inloop)} : i \in 1..(w - 1)}

FlowPrograms(weight) == UNION {FlowSuites(w, FALSE) : w \in 1..weight}

Idle == [k |-> "idle"]

(***************************************************************************)
(* The CFG builder on one function.                                        *)
(***************************************************************************)
FlowSpecInit ==
    /\ phase = "implicits"
    /\ ast \in {[suite |-> s] : s \in FlowPrograms(MaxWeight)}
    /\ fl = FlowInit
    /\ uc = Idle
    /\ de = Idle
    /\ ex = Idle
    /\ es = Idle
    /\ pl = Idle
    /\ ty = Idle

\* FlowFinder.visit_function
FlowVisitFunction ==
    /\ phase = "implicits"
    /\ fl' = flow_visit_function(ast.suite)
    /\ phase' = "flow"
    /\ UNCHANGED <<ast, uc, de, ex, es, pl, ty>>

FlowNext == FlowVisitFunction

SpecFlow == FlowSpecInit /\ [][FlowNext]_vars


(***************************************************************************)
(* Properties of the Flow the CFG builder leaves behind                    *)
(***************************************************************************)
\* the builder ran to its end without a Python exception
FlowDone == phase = "flow" /\ fl.crash = ""

\* the Block objects of fn.flow.blocks
FlowBlockSet(st) == {st.blocks[i] : i \in 1..Len(st.blocks)}

\* the blocks a step names as its successors
Successors(n) ==
    (IF n.k \in {"Branch", "Yield"} THEN {n.tgt} ELSE {})
    \cup (IF n.k = "CondBranch" THEN {n.tgt, n.fls} ELSE {})
    \cup (IF n.k = "LandingPad" THEN {n.fail, n.map} ELSE {})
    \cup (IF n.cb THEN {n.cbn, n.cbe} ELSE {})

EndsInTerminator(st, b) ==
    LET ls == last_step(st, b)
    IN  ls # None /\ (st.nodes[ls].k \in FINAL \/ st.nodes[ls].cb)

StepAfterTerminator(st, b) ==
    LET steps == st.bh[b].steps
    IN  \E i \in 1..Len(steps) : \E j \in (i + 1)..Len(steps) :
            /\ st.nodes[steps[i]].k \in FINAL
            /\ st.nodes[steps[j]].k \notin {"BeginScope", "EndScope"}

DanglingSuccessor(st, b) ==
    \E i \in 1..Len(st.bh[b].steps) :
        \E t \in Successors(st.nodes[st.bh[b].steps[i]]) : t \notin FlowBlockSet(st)

\* C1: after the CFG builder has lowered a function body, the last step of
\* every block of the Flow, a trailing EndScope ignored, is a terminator or
\* a call that carries a call_branch.
C1_EveryBlockEndsInTerminator ==
    FlowDone => \A b \in FlowBlockSet(fl) : EndsInTerminator(fl, b)

\* C2: in every block of the Flow no step other than a scope marker follows
\* a terminator.
C2_NothingAfterTerminator ==
    FlowDone => \A b \in FlowBlockSet(fl) : ~StepAfterTerminator(fl, b)

\* C3: every block a step of the Flow names as a successor is a block of
\* Flow.blocks: none is None and none was removed.
C3_SuccessorsInFlow ==
    FlowDone => \A b \in FlowBlockSet(fl) : ~DanglingSuccessor(fl, b)


(***************************************************************************)
(* Python dicts, in insertion order: a sequence of [key, val] entries.     *)
(***************************************************************************)
EmptyDict == <<>>

DictHas(d, k) == \E i \in 1..Len(d) : d[i].key = k

DictGet(d, k) == d[CHOOSE i \in 1..Len(d) : d[i].key = k].val

DictPut(d, k, v) ==
    IF DictHas(d, k)
    THEN [i \in 1..Len(d) |-> IF d[i].key = k THEN [key |-> k, val |-> v] ELSE d[i]]
    ELSE Append(d, [key |-> k, val |-> v])

DictDel(d, k) == SelectSeq(d, LAMBDA x : x.key # k)

DictKeys(d) == {d[i].key : i \in 1..Len(d)}

(***************************************************************************)
(* util.ScopesDict: the chain of scopes from the root (first) to the       *)
(* current one (last); the parent of a scope is the chain without its last *)
(* element.  <<>> is None.                                                 *)
(***************************************************************************)
\* ScopesDict.__contains__
ScopesHas(sd, k) == \E i \in 1..Len(sd) : DictHas(sd[i], k)

\* ScopesDict.__getitem__: the innermost scope that holds the key
ScopesGet(sd, k) ==
    DictGet(sd[CHOOSE i \in 1..Len(sd) :
                  DictHas(sd[i], k) /\ \A j \in (i + 1)..Len(sd) : ~DictHas(sd[j], k)], k)

\* ScopesDict.__setitem__
ScopesSet(sd, k, v) == [sd EXCEPT ![Len(sd)] = DictPut(@, k, v)]

\* ScopesDict.__delitem__
ScopesDel(sd, k) ==
    LET i == CHOOSE i \in 1..Len(sd) :
                 DictHas(sd[i], k) /\ \A j \in (i + 1)..Len(sd) : ~DictHas(sd[j], k)
    IN  [sd EXCEPT ![i] = DictDel(@, k)]

\* ScopesDict.values: the values of the current scope, then those of its
\* parent's own dict
ScopesValues(sd) ==
    LET cur == [i \in 1..Len(sd[Len(sd)]) |-> sd[Len(sd)][i].val]
        par == IF Len(sd) > 1
               THEN [i \in 1..Len(sd[Len(sd) - 1]) |-> sd[Len(sd) - 1][i].val]
               ELSE <<>>
    IN  cur \o par

(***************************************************************************)
(* Names and types.  get_name() of a Symbol is its internal name, of an    *)
(* Attribute the pair (object name, attribute); both are modelled as a     *)
(* record [n, f] with f = "" for a Symbol.  The types are what the typing  *)
(* and escapes passes left on the nodes: ast.types gives, for a variable   *)
(* or attribute name, the flags of its type and its must_escape.           *)
(***************************************************************************)
MaxSuffix == 12

\* Symbol.is_hidden
is_hidden(n) == \E i \in 0..MaxSuffix : n = HiddenName(i)

\* get_name
get_name(e) ==
    IF e.e \in {"attr", "setattr"} THEN [n |-> e.o.n, f |-> e.f] ELSE [n |-> e.n, f |-> ""]

\* isinstance(key, tuple)
IsTupleName(k) == k.f # ""

PlainType == [own |-> FALSE, mut |-> FALSE, ref |-> FALSE, wrapped |-> FALSE, esc |-> FALSE]

\* node.type, with types.is_heap_owner, .is_mutable, types.is_reference and
\* types.is_wrapped as its fields, and node.must_escape as esc
TypeOf(e) ==
    LET n == IF e.e \in {"attr", "setattr"} THEN e.f ELSE e.n
    IN  IF n \in DOMAIN ast.types THEN ast.types[n] ELSE PlainType


(***************************************************************************)
(* UsesChecker (cfg_passes/uses.py).  u holds the pass object's fields     *)
(* indent_level, definitions, uses, moves and references, and              *)
(*   cur   the step being visited (a reference into fl.nodes)              *)
(*   err   the util.Error that ended the pass: its kind and the positions  *)
(*         of its messages in order; kind "" when none was raised.  A      *)
(*         Python exception that is no util.Error has kind "crash".        *)
(* A definitions entry is the pair (indent_level, var); a uses entry the   *)
(* pair (var, positions of the nodes that used it); a moves entry is       *)
(* the moved node; a references entry is the list of                       *)
(* {obj, reference_assign, blocking_assign} dicts, the two assigns being   *)
(* references to Assign steps.                                             *)
(* Calls of functions imported from C (is_extern_c) and Tuple nodes are    *)
(* not part of the modelled programs.                                      *)
(***************************************************************************)
NoError == [kind |-> "", pos |-> <<>>]

UsesFields ==
    [indent_level |-> -1, definitions |-> <<EmptyDict>>, uses |-> EmptyDict,
     moves |-> EmptyDict, references |-> EmptyDict, cur |-> None, err |-> NoError]

\* raise util.Error(...): the first error raised ends the pass
UsesError(u, kind, pos) ==
    IF u.err.kind = "" THEN [u EXCEPT !.err = [kind |-> kind, pos |-> pos]] ELSE u

Failed(u) == u.err.kind # ""

\* UsesChecker.define_variable; is_symbol is isinstance(var, ast.Symbol)
uses_define_variable(u, var, is_symbol) ==
    LET key == [n |-> var.n, f |-> ""]
        u1 == IF ScopesHas(u.definitions, key) THEN u
              ELSE [u EXCEPT !.definitions =
                        ScopesSet(@, key, [lvl |-> u.indent_level, var |-> var])]
    IN  IF Failed(u) THEN u
        ELSE IF u.definitions = <<>> THEN UsesError(u, "crash", <<>>)
        ELSE IF var.n # "self" /\ is_symbol /\ ~is_hidden(var.n)
        THEN [u1 EXCEPT !.uses = DictPut(@, var.n, [var |-> var, uses |-> {}])]
        ELSE u1

\* check_partial_move, nested in UsesChecker.check_move_or_copy
check_partial_move(u, node) ==
    LET key == get_name(node)
        hits == SelectSeq(u.moves, LAMBDA m : IsTupleName(m.key) /\ ~IsTupleName(key)
                                              /\ m.key.n = key.n)
    IN  IF DictHas(u.moves, key) \/ hits = <<>> THEN u
        ELSE UsesError(u, "partial-move", <<hits[1].val.pos, node.pos>>)

\* UsesChecker.check_move_or_copy; dst_own is types.is_heap_owner(dst_type)
uses_check_move_or_copy(u, src, dst_own) ==
    IF Failed(u) THEN u
    ELSE IF src.e \in {"sym", "attr", "setattr"} /\ src.cm /\ dst_own
    THEN Bind(check_partial_move(u, src), LAMBDA u1 :
         IF Failed(u1) THEN u1
         ELSE [u1 EXCEPT !.moves = DictPut(@, get_name(src), src)])
    ELSE u

RECURSIVE FlattenVals(_)
\* the entries of every list of a dict of lists, in iteration order
FlattenVals(d) == IF d = <<>> THEN <<>> ELSE Head(d).val \o FlattenVals(Tail(d))

\* UsesChecker.check_object
check_object(u, node) ==
    LET key == get_name(node)
        hits == SelectSeq(FlattenVals(u.references),
                          LAMBDA r : get_name(r.obj) = key /\ r.blocking_assign # None)
        reference_assign == fl.nodes[hits[1].reference_assign]
        blocking_assign == fl.nodes[hits[1].blocking_assign]
    IN  IF Failed(u) THEN u
        ELSE IF DictHas(u.moves, key)
        THEN UsesError(u, "use-after-move", <<DictGet(u.moves, key).pos, node.pos>>)
        ELSE IF hits = <<>> THEN u
        ELSE IF ~ScopesHas(u.definitions, get_name(blocking_assign.left))
        THEN UsesError(u, "crash", <<>>)
        ELSE UsesError(u, "reference-blocked",
                       <<reference_assign.right.pos, blocking_assign.left.pos, node.pos>>)

\* UsesChecker.visit_symbol
uses_visit_symbol(u, e) ==
    Bind(check_object(u, e), LAMBDA u1 :
    IF Failed(u1) \/ ~DictHas(u1.uses, e.n) THEN u1
    ELSE [u1 EXCEPT !.uses =
             DictPut(@, e.n, [DictGet(@, e.n) EXCEPT !.uses = @ \cup {e.pos}])])

RECURSIVE uses_visit(_, _)
RECURSIVE uses_visit_call(_, _, _)

\* UsesChecker.visit, for expression nodes.  The callable of a Call is the
\* name of a function: no variable of the modelled programs has that name,
\* so visiting it changes nothing.
uses_visit(u, e) ==
    IF Failed(u) THEN u
    ELSE CASE e.e = "sym" -> uses_visit_symbol(u, e)
           [] e.e \in {"attr", "setattr"} -> \* visit_attribute, visit_setattribute
                uses_visit(IF e.o.e = "sym" THEN check_object(u, e) ELSE u, e.o)
           [] e.e = "ref" -> uses_visit(u, e.v)             \* visit_reference
           [] e.e = "call" -> uses_visit_call(u, e.args, e.own)
           [] e.e = "phi" -> uses_visit(uses_visit(u, e.lv), e.rv)   \* visit_phi
           [] OTHER -> u

\* the loop of UsesChecker.visit_call over zip(node.args, formals)
uses_visit_call(u, args, own) ==
    IF Failed(u) \/ args = <<>> \/ own = <<>> THEN u
    ELSE uses_visit_call(uses_check_move_or_copy(uses_visit(u, Head(args)),
                                                 Head(args), Head(own)),
                         Tail(args), Tail(own))

MaxDepth == 4

RECURSIVE block_references(_, _, _, _)
RECURSIVE block_references_loop(_, _, _, _, _)
\* block_references, nested in UsesChecker.visit_assign; node is the Assign
\* step being visited.  depth counts the nested calls: Python gives up with
\* a RecursionError when the references form a cycle.
block_references(u, key, node, depth) ==
    IF Failed(u) \/ ~DictHas(u.references, key) THEN u
    ELSE IF depth > MaxDepth THEN UsesError(u, "crash", <<>>)
    ELSE block_references_loop(u, key, 1, node, depth)

\* for i in range(len(references)): ...
block_references_loop(u, key, i, node, depth) ==
    IF Failed(u) \/ i > Len(DictGet(u.references, key)) THEN u
    ELSE LET refs == DictGet(u.references, key) IN
         Bind(block_references(
                  [u EXCEPT !.references =
                      DictPut(@, key, [refs EXCEPT ![i].blocking_assign = node])],
                  get_name(refs[i].obj), node, depth + 1), LAMBDA u2 :
         block_references_loop(u2, key, i + 1, node, depth))

\* check_object_blockings, nested in UsesChecker.visit_assign
check_object_blockings(u, left, node) ==
    Bind(block_references(u, get_name(left), node, 0), LAMBDA u1 :
    IF Failed(u1) THEN u1
    ELSE [u1 EXCEPT !.moves = DictDel(@, get_name(left))])

\* check_reference, nested in UsesChecker.visit_assign
check_reference(u, left, right, node) ==
    LET rkey == get_name(right)
        lkey == get_name(left)
        previous == IF DictHas(u.references, rkey) THEN DictGet(u.references, rkey) ELSE <<>>
        mutables == SelectSeq(previous, LAMBDA r : TypeOf(r.obj).mut)
        entry == [obj |-> left, reference_assign |-> node, blocking_assign |-> None]
        u1 == [u EXCEPT !.references = DictPut(@, rkey, Append(previous, entry))]
        value == ScopesGet(u.definitions, rkey)
        var == ScopesGet(u.definitions, lkey)
    IN  IF Failed(u) THEN u
        ELSE IF TypeOf(left).mut /\ mutables # <<>>
        THEN UsesError(u, "mutable-reference", <<mutables[1].obj.pos, left.pos>>)
        ELSE IF ScopesHas(u.definitions, lkey) /\ ScopesHas(u.definitions, rkey)
                /\ value.lvl > var.lvl
        THEN UsesError(u1, "reference-scope", <<var.var.pos, right.pos>>)
        ELSE u1

\* UsesChecker.visit_assign; node is the Assign step
uses_visit_assign(u, node) ==
    LET n == fl.nodes[node] IN
    Bind(uses_check_move_or_copy(uses_visit(u, n.right), n.right, TypeOf(n.left).own),
         LAMBDA u2 :
    Bind(check_object_blockings(IF n.left.e = "sym" /\ is_hidden(n.left.n)
                                THEN uses_define_variable(u2, n.left, TRUE)
                                ELSE u2, n.left, node), LAMBDA u4 :
    IF n.right.e = "ref" THEN check_reference(u4, n.left, n.right.v, node) ELSE u4))

\* UsesChecker.visit_del
uses_visit_del(u, n) ==
    Bind(uses_visit(u, n.val), LAMBDA u1 :
    IF Failed(u1) THEN u1
    ELSE [u1 EXCEPT !.moves = DictPut(@, get_name(n.val), n.val)])

\* UsesChecker.visit, for the step `node` of a block
uses_visit_step(u0, node) ==
    LET n == fl.nodes[node]
        u == [u0 EXCEPT !.cur = node]
    IN  CASE n.k = "BeginScope" ->      \* visit_beginscope
               [u EXCEPT !.definitions = Append(@, EmptyDict), !.indent_level = @ + 1]
          [] n.k = "EndScope" ->        \* visit_endscope
               IF u.definitions = <<>> THEN UsesError(u, "crash", <<>>)
               ELSE [u EXCEPT !.definitions = SubSeq(@, 1, Len(@) - 1),
                              !.indent_level = @ - 1]
          [] n.k \in {"CondBranch", "Raise", "Yield", "Return"} -> uses_visit(u, n.val)
          [] n.k = "Call" -> uses_visit(u, n.right)
          [] n.k = "VariableDeclaration" -> uses_define_variable(u, n.left, TRUE)
          [] n.k = "Assign" -> uses_visit_assign(u, node)
          [] n.k = "Del" -> uses_visit_del(u, n)
          [] OTHER -> u                 \* Pass, Branch, LandingPad, Resume

RECURSIVE uses_define_arguments(_, _)
\* for arg in self.fn.args: self.define_variable(arg)
uses_define_arguments(u, args) ==
    IF args = <<>> THEN u
    ELSE uses_define_arguments(uses_define_variable(u, Head(args), FALSE), Tail(args))

RECURSIVE ConcatSteps(_, _)
\* the steps UsesChecker.visit_function visits, in the order it visits them
ConcatSteps(st, blocks) ==
    IF blocks = <<>> THEN <<>>
    ELSE sorted_steps(st, Head(blocks)) \o ConcatSteps(st, Tail(blocks))

VisitOrder(st) == ConcatSteps(st, sorted_blocks(st))


(***************************************************************************)
(* The functions the Uses/Moves checker is run on.  A function has the     *)
(* arguments a, b (owners of a heap value), r, s (mutable references), q   *)
(* (a reference that is not mutable) and c (a bool); its body may declare  *)
(* x (an owner) and z (a reference that is not mutable), and names them    *)
(* only where they are in scope.  f is an attribute that owns a heap       *)
(* value.  A node's position is 10 * row + col, the row being the          *)
(* statement's rank in the body.                                           *)
(***************************************************************************)
OwnerType == [own |-> TRUE, mut |-> FALSE, ref |-> FALSE, wrapped |-> TRUE, esc |-> FALSE]
MutRefType == [own |-> FALSE, mut |-> TRUE, ref |-> TRUE, wrapped |-> TRUE, esc |-> FALSE]
RefType == [own |-> FALSE, mut |-> FALSE, ref |-> TRUE, wrapped |-> TRUE, esc |-> FALSE]

UsesTypes ==
    [n \in {"a", "b", "x", "f", "r", "s", "q", "z", "c"} |->
        IF n \in {"a", "b", "x", "f"} THEN OwnerType
        ELSE IF n \in {"r", "s"} THEN MutRefType
        ELSE IF n \in {"q", "z"} THEN RefType
        ELSE PlainType]

Argument(n, p) == [e |-> "arg", n |-> n, pos |-> p]

UsesArgs ==
    <<Argument("a", 1), Argument("b", 2), Argument("r", 3), Argument("s", 4),
      Argument("q", 5), Argument("c", 6)>>

SymAt(n, row, col) == At(Sym(n), 10 * row + col)

\* the statements of one row that name arguments only
UsesSimple(row) ==
    {Assign(SymAt("b", row, 1), SymAt("a", row, 2)),                                \* b = a
     Assign(SymAt("a", row, 1), At(Call(<<>>, <<>>), 10 * row + 2)),                \* a = foo()
     ExprStmt(At(Call(<<SymAt("a", row, 2)>>, <<TRUE>>), 10 * row + 1)),            \* foo(a), a moved in
     ExprStmt(At(Call(<<SymAt("a", row, 2)>>, <<FALSE>>), 10 * row + 1)),           \* foo(a), a read
     Assign(SymAt("r", row, 1), At(Ref(SymAt("a", row, 3)), 10 * row + 2)),         \* r = &a
     Assign(SymAt("s", row, 1), At(Ref(SymAt("a", row, 3)), 10 * row + 2)),         \* s = &a
     ExprStmt(At(Call(<<SymAt("r", row, 2)>>, <<FALSE>>), 10 * row + 1)),           \* foo(r)
     ExprStmt(At(Call(<<SymAt("r", row, 2), SymAt("a", row, 3)>>, <<FALSE, FALSE>>),
                 10 * row + 1)),                                                    \* foo(r, a)
     Assign(SymAt("b", row, 1), At(Attr(SymAt("a", row, 3), "f"), 10 * row + 2)),   \* b = a.f
     ExprStmt(At(Call(<<At(Attr(SymAt("a", row, 3), "f"), 10 * row + 2)>>, <<FALSE>>),
                 10 * row + 1)),                                                    \* foo(a.f)
     Assign(At(Attr(SymAt("a", row, 2), "f"), 10 * row + 1),
            At(Call(<<>>, <<>>), 10 * row + 3)),                                    \* a.f = foo()
     Assign(At(Attr(SymAt("r", row, 2), "f"), 10 * row + 1),
            At(Call(<<>>, <<>>), 10 * row + 3)),                                    \* r.f = foo()
     Assign(SymAt("s", row, 1), SymAt("r", row, 2)),                                \* s = r
     Var(SymAt("x", row, 1), NoStmt)}                                               \* var x

\* the statements of one row that name x or z, which must be in scope
UsesScoped(row, scope) ==
    (IF "x" \in scope
     THEN {Assign(SymAt("r", row, 1), At(Ref(SymAt("x", row, 3)), 10 * row + 2)),   \* r = &x
           Var(SymAt("z", row, 1),
               Assign(SymAt("z", row, 1), At(Ref(SymAt("x", row, 3)), 10 * row + 2)))} \* var z = &x
     ELSE {})
    \cup (IF "z" \in scope
          THEN {Assign(SymAt("q", row, 1), SymAt("z", row, 2))}                     \* q = z
          ELSE {})

\* the names a statement brings into the scope of the statements after it
Declared(stmt) == IF stmt.k = "var" THEN {stmt.v.n} ELSE {}

RECURSIVE UsesStmts(_, _, _)
RECURSIVE UsesSuites(_, _, _)
\* the statements of exactly w rows that start at row
UsesStmts(w, row, scope) ==
    IF w = 1 THEN {s \in UsesSimple(row) : Declared(s) \cap scope = {}}
                  \cup UsesScoped(row, scope)
    ELSE {While(SymAt("c", row, 1), t) : t \in UsesSuites(w - 1, row + 1, scope)}
         \cup {If(<<Part(SymAt("c", row, 1), t)>>) : t \in UsesSuites(w - 1, row + 1, scope)}

\* the suites of exactly w rows that start at row
UsesSuites(w, row, scope) ==
    IF w = 0 THEN {<<>>}
    ELSE UNION {UNION {{<<t>> \o rest : rest \in UsesSuites(w - i, row + i,
                                                            scope \cup Declared(t))} :
                          t \in UsesStmts(i, row, scope)} : i \in 1..w}

UsesWeight == 3

\* a reference to a value of an inner scope that is copied to a reference of
\* the outer scope
DeeperSuites ==
    {<<If(<<Part(SymAt("c", 1, 1),
                 <<Var(SymAt("x", 2, 1), NoStmt),
                   Var(SymAt("z", 3, 1), Assign(SymAt("z", 3, 1), At(Ref(SymAt("x", 3, 3)), 32))),
                   Assign(SymAt("q", 4, 1), SymAt("z", 4, 2))>>)>>)>>}

UsesPrograms(weight) == UNION {UsesSuites(w, 1, {}) : w \in 1..weight} \cup DeeperSuites


(***************************************************************************)
(* The Uses/Moves checker on one function, step by step.                   *)
(***************************************************************************)
UsesSpecInit ==
    /\ phase = "implicits"
    /\ ast \in {[suite |-> t, args |-> UsesArgs, types |-> UsesTypes] : t \in UsesPrograms(UsesWeight)}
    /\ fl = FlowInit
    /\ uc = Idle
    /\ de = Idle
    /\ ex = Idle
    /\ es = Idle
    /\ pl = Idle
    /\ ty = Idle

\* UsesChecker.visit_function up to its loop over the blocks: the fields are
\* reset and the arguments defined.  order is the sequence the two sorted()
\* calls make the loop follow, i the number of steps visited so far.
UsesVisitFunction ==
    /\ phase = "flow"
    /\ fl.crash = ""
    /\ uc = Idle
    /\ uc' = [k |-> "uses", order |-> VisitOrder(fl), i |-> 0, warn |-> None,
              f |-> uses_define_arguments(UsesFields, ast.args)]
    /\ UNCHANGED <<phase, ast, fl, de, ex, es, pl, ty>>

UsesRunning == phase = "flow" /\ uc.k = "uses" /\ ~Failed(uc.f)

\* one turn of the loop: self.visit(step)
UsesVisitStep ==
    /\ UsesRunning
    /\ uc.i < Len(uc.order)
    /\ uc' = [uc EXCEPT !.i = @ + 1, !.f = uses_visit_step(@, uc.order[uc.i + 1])]
    /\ UNCHANGED <<phase, ast, fl, de, ex, es, pl, ty>>

\* the end of UsesChecker.visit_function: the first unused variable is
\* warned about and the pass is recorded in fn.passes
UsesFinish ==
    /\ UsesRunning
    /\ uc.i = Len(uc.order)
    /\ LET unused == SelectSeq(uc.f.uses, LAMBDA x : x.val.uses = {})
       IN  uc' = [uc EXCEPT !.warn = IF unused = <<>> THEN None ELSE unused[1].val.var.pos]
    /\ phase' = "uses"
    /\ UNCHANGED <<ast, fl, de, ex, es, pl, ty>>


(***************************************************************************)
(* A run of a function the checker accepted.  The code generator emits the *)
(* steps of a block in id order and a branch continues at the first step   *)
(* of its target (code_generation.py), so a run is a walk of the CFG; a    *)
(* CondBranch may go either way.  ex holds the walk's position (block b,   *)
(* rank i of the step to run next) and what the bindings hold there:       *)
(*   moved   the owners whose value was moved away and not replaced        *)
(*   pts     for each reference variable, the variable it refers to        *)
(*           ("" when it refers to nothing the function knows)             *)
(*   scopes  the variables declared in each open scope, innermost last     *)
(*   uam     a variable the last step read after its value was moved away  *)
(***************************************************************************)
RECURSIVE UseSites(_)
RECURSIVE UseSitesOfArgs(_)
\* the places an expression reads a variable or a field, in evaluation order
UseSites(e) ==
    CASE e.e = "sym" -> <<[key |-> get_name(e), pos |-> e.pos]>>
      [] e.e = "attr" ->
            (IF e.o.e = "sym" THEN <<[key |-> get_name(e), pos |-> e.pos]>> ELSE <<>>)
            \o UseSites(e.o)
      [] e.e = "ref" -> UseSites(e.v)
      [] e.e = "call" -> UseSitesOfArgs(e.args)
      [] e.e = "phi" -> UseSites(e.lv) \o UseSites(e.rv)
      [] OTHER -> <<>>

UseSitesOfArgs(args) ==
    IF args = <<>> THEN <<>> ELSE UseSites(Head(args)) \o UseSitesOfArgs(Tail(args))

\* the places the value of a step reads a variable or a field: the right-hand
\* side of an assignment, the arguments of a call, the value of the others
StepUseSites(n) ==
    CASE n.k \in {"Assign", "Call"} -> UseSites(n.right)
      [] n.k \in {"CondBranch", "Return", "Yield", "Raise", "Del"} -> UseSites(n.val)
      [] OTHER -> <<>>

\* the object an assignment to a field stores into: visit_assign of the code
\* generator visits the SetAttribute target, and get_attribute_addr visits
\* its obj
StepTargetSites(n) ==
    IF n.k = "Assign" /\ n.left.e \in {"attr", "setattr"} /\ n.left.o.e = "sym"
    THEN <<[key |-> get_name(n.left.o), pos |-> n.left.o.pos]>>
    ELSE <<>>

\* the places a step uses a variable or a field
StepSites(n) == StepUseSites(n) \o StepTargetSites(n)

\* the variables a step reads
ReadNames(n) == {StepSites(n)[k].key.n : k \in 1..Len(StepSites(n))}

\* the owners whose value a step moves to a binding or to a call argument
MovedBy(n) ==
    (IF n.k = "Assign" /\ n.right.e = "sym" /\ TypeOf(n.left).own /\ TypeOf(n.right).own
     THEN {n.right.n} ELSE {})
    \cup (IF n.k \in {"Assign", "Call"} /\ n.right.e = "call"
          THEN {n.right.args[k].n : k \in {j \in 1..Len(n.right.args) :
                   /\ j <= Len(n.right.own)
                   /\ n.right.own[j]
                   /\ n.right.args[j].e = "sym"
                   /\ TypeOf(n.right.args[j]).own}}
          ELSE {})

\* the variable a step gives a new value
AssignedBy(n) == IF n.k = "Assign" /\ n.left.e = "sym" THEN {n.left.n} ELSE {}

RefNames == {n \in DOMAIN ast.types : ast.types[n].ref}

ArgNames == {ast.args[k].n : k \in 1..Len(ast.args)}

InScope(n) == n \in ArgNames \/ \E k \in 1..Len(ex.scopes) : n \in ex.scopes[k]

\* what the reference variables refer to after step n
PointsAfter(pts, n) ==
    IF n.k # "Assign" \/ n.left.e # "sym" THEN pts
    ELSE [y \in DOMAIN pts |->
            IF y = n.left.n
            THEN IF n.right.e = "ref" /\ n.right.v.e = "sym" THEN n.right.v.n
                 ELSE IF n.right.e = "sym" /\ n.right.n \in DOMAIN pts THEN pts[n.right.n]
                 ELSE ""
            ELSE IF pts[y] = n.left.n THEN "" ELSE pts[y]]

\* the open scopes after step n
ScopesAfter(scopes, n) ==
    CASE n.k = "BeginScope" -> Append(scopes, {})
      [] n.k = "EndScope" /\ scopes # <<>> -> SubSeq(scopes, 1, Len(scopes) - 1)
      [] n.k = "VariableDeclaration" /\ scopes # <<>> ->
            [scopes EXCEPT ![Len(scopes)] = @ \cup {n.left.n}]
      [] OTHER -> scopes

\* where a run continues after step n at rank i of block b
Continuations(n, b, i) ==
    CASE n.k \in {"Branch", "Yield"} -> {[b |-> n.tgt, i |-> 1]}
      [] n.k = "CondBranch" -> {[b |-> n.tgt, i |-> 1], [b |-> n.fls, i |-> 1]}
      [] n.k \in {"Return", "Raise", "Resume"} -> {}
      [] n.cb -> {[b |-> n.cbn, i |-> 1], [b |-> n.cbe, i |-> 1]}
      [] OTHER -> {[b |-> b, i |-> i + 1]}

\* the function is called
RunStart ==
    /\ phase = "uses"
    /\ ex = Idle
    /\ ex' = [k |-> "run", b |-> sorted_blocks(fl)[1], i |-> 1, moved |-> {},
              pts |-> [n \in RefNames |-> ""], scopes |-> <<>>, uam |-> ""]
    /\ UNCHANGED <<phase, ast, fl, uc, de, es, pl, ty>>

\* the run executes its next step
RunStep ==
    /\ ex.k = "run"
    /\ ex.uam = ""
    /\ ex.b # None
    /\ ex.i <= Len(fl.bh[ex.b].steps)
    /\ LET n == fl.nodes[sorted_steps(fl, ex.b)[ex.i]]
           after == [ex EXCEPT
                        !.uam = IF ReadNames(n) \cap ex.moved = {} THEN ""
                                ELSE CHOOSE v \in ReadNames(n) \cap ex.moved : TRUE,
                        !.moved = (@ \cup MovedBy(n)) \ AssignedBy(n),
                        !.pts = PointsAfter(@, n),
                        !.scopes = ScopesAfter(@, n)]
       IN  IF Continuations(n, ex.b, ex.i) = {}
           THEN ex' = [after EXCEPT !.k = "done"]
           ELSE \E c \in Continuations(n, ex.b, ex.i) :
                    ex' = [after EXCEPT !.b = c.b, !.i = c.i]
    /\ UNCHANGED <<phase, ast, fl, uc, de, es, pl, ty>>

UsesNext ==
    FlowVisitFunction \/ UsesVisitFunction \/ UsesVisitStep \/ UsesFinish \/ RunStart \/ RunStep

SpecUses == UsesSpecInit /\ [][UsesNext]_vars


(***************************************************************************)
(* Destructor (cfg_passes/destructions.py).  d holds the pass object's     *)
(* definitions, a ScopesDict of Definition(var, initialized), and crash,   *)
(* the Python exception that ended the pass ("" when none).  The pass      *)
(* inserts its Del steps into the Flow, so its methods take and return the *)
(* pair s = [st, d] of the Flow and the fields.  The functions are plain   *)
(* functions: fn.self_type is None.                                        *)
(***************************************************************************)
Definition(var, initialized) == [var |-> var, initialized |-> initialized]

DestrFields == [definitions |-> <<EmptyDict>>, crash |-> ""]

DestrCrash(s, why) == [s EXCEPT !.d.crash = IF @ = "" THEN why ELSE @]

\* Destructor.define_variable
destr_define_variable(s, var, initialized) ==
    IF s.d.definitions = <<>> THEN DestrCrash(s, "TypeError")
    ELSE IF ScopesHas(s.d.definitions, get_name(var)) THEN s
    ELSE [s EXCEPT !.d.definitions = ScopesSet(@, get_name(var), Definition(var, initialized))]

\* Destructor.check_delete_variable with reassign=False; b and step are
\* self.curr_block and self.curr_step
check_delete_variable(st, b, step, var) ==
    IF TypeOf(var).wrapped /\ ~TypeOf(var).ref /\ ~TypeOf(var).esc
    THEN insert_step(st, b, step, [Nd("Del") EXCEPT !.val = var])
    ELSE st

RECURSIVE delete_variables(_, _, _, _)
\* for definition in defs: self.check_delete_variable(definition.var)
delete_variables(st, b, step, defs) ==
    IF defs = <<>> THEN st
    ELSE delete_variables(check_delete_variable(st, b, step, Head(defs).var),
                          b, step, Tail(defs))

\* Destructor.visit_beginscope
destr_visit_beginscope(s) == [s EXCEPT !.d.definitions = Append(@, EmptyDict)]

\* Destructor.visit_endscope
destr_visit_endscope(s, b, step) ==
    IF s.d.definitions = <<>> THEN DestrCrash(s, "AttributeError")
    ELSE LET ls == last_step(s.st, b)
             current == s.d.definitions[Len(s.d.definitions)]
             defs == [i \in 1..Len(current) |-> current[i].val]
         IN  [s EXCEPT !.st = IF ls # None /\ s.st.nodes[ls].k = "Return" THEN @
                              ELSE delete_variables(@, b, step, defs),
                       !.d.definitions = SubSeq(@, 1, Len(@) - 1)]

\* Destructor.visit_return: visiting the value changes nothing
destr_visit_return(s, b, step) ==
    IF s.d.definitions = <<>> THEN DestrCrash(s, "AttributeError")
    ELSE [s EXCEPT !.st = delete_variables(@, b, step, ScopesValues(s.d.definitions))]

\* definition = self.definitions[name]; definition.initialized = True
MarkInitialized(sd, k) ==
    LET i == CHOOSE i \in 1..Len(sd) :
                 DictHas(sd[i], k) /\ \A j \in (i + 1)..Len(sd) : ~DictHas(sd[j], k)
    IN  [sd EXCEPT ![i] = DictPut(@, k, [DictGet(@, k) EXCEPT !.initialized = TRUE])]

\* Destructor.visit_assign with its nested assign_variable
destr_visit_assign(s, n) ==
    Bind(IF n.left.e = "sym" THEN destr_define_variable(s, n.left, FALSE) ELSE s, LAMBDA s1 :
    IF s1.d.crash # "" \/ ~ScopesHas(s1.d.definitions, get_name(n.left)) THEN s1
    ELSE [s1 EXCEPT !.d.definitions = MarkInitialized(@, get_name(n.left))])

\* Destructor.visit_del
destr_visit_del(s, n) ==
    IF n.val.e = "sym" /\ ScopesHas(s.d.definitions, get_name(n.val))
    THEN [s EXCEPT !.d.definitions = ScopesDel(@, get_name(n.val))]
    ELSE s

\* Destructor.visit, for the step `step` of block b
destr_visit_step(s, b, step) ==
    LET n == s.st.nodes[step]
    IN  CASE n.k = "BeginScope" -> destr_visit_beginscope(s)
          [] n.k = "EndScope" -> destr_visit_endscope(s, b, step)
          [] n.k = "Return" -> destr_visit_return(s, b, step)
          [] n.k = "Assign" -> destr_visit_assign(s, n)
          [] n.k = "Del" -> destr_visit_del(s, n)
          [] OTHER -> s            \* the other visit methods change nothing

RECURSIVE destr_define_arguments(_, _)
\* for arg in self.fn.args: ... self.define_variable(arg_as_symbol, True)
destr_define_arguments(s, args) ==
    IF args = <<>> THEN s
    ELSE destr_define_arguments(
             destr_define_variable(s, [Sym(Head(args).n) EXCEPT !.pos = Head(args).pos], TRUE),
             Tail(args))

\* the block a step is in
BlockOf(st, step) ==
    CHOOSE b \in 1..Len(st.bh) : \E i \in 1..Len(st.bh[b].steps) : st.bh[b].steps[i] = step

(***************************************************************************)
(* The functions the Destructor is run on.  A function has the arguments   *)
(* a and e (owners of a heap value), q (a reference) and c (a bool) and    *)
(* may declare x (an owner).  e is passed by value to a call in some       *)
(* bodies: there the escapes pass has marked it must_escape.  Nothing      *)
(* else escapes: no return has a value.                                    *)
(***************************************************************************)
DestrArgs ==
    <<Argument("a", 1), Argument("e", 2), Argument("q", 3), Argument("c", 4)>>

\* the statements of one row that name arguments only
DestrSimple(row) ==
    {Var(SymAt("x", row, 1),
         Assign(SymAt("x", row, 1), At(Call(<<>>, <<>>), 10 * row + 2))),           \* var x = foo()
     Return(NoExpr),                                                                \* return
     ExprStmt(At(Call(<<SymAt("a", row, 2)>>, <<FALSE>>), 10 * row + 1)),           \* foo(a), a read
     ExprStmt(At(Call(<<SymAt("e", row, 2)>>, <<TRUE>>), 10 * row + 1))}            \* foo(e), e moved in

\* the statements of one row that name x, which must be in scope
DestrScoped(row, scope) ==
    IF "x" \in scope THEN {DelStmt(SymAt("x", row, 1))} ELSE {}                     \* del x

RECURSIVE DestrStmts(_, _, _)
RECURSIVE DestrSuites(_, _, _)
\* the statements of exactly w rows that start at row
DestrStmts(w, row, scope) ==
    IF w = 1 THEN {s \in DestrSimple(row) : Declared(s) \cap scope = {}}
                  \cup DestrScoped(row, scope)
    ELSE {While(SymAt("c", row, 1), t) : t \in DestrSuites(w - 1, row + 1, scope)}
         \cup {If(<<Part(SymAt("c", row, 1), t)>>) : t \in DestrSuites(w - 1, row + 1, scope)}

\* the suites of exactly w rows that start at row; nothing follows a return
DestrSuites(w, row, scope) ==
    IF w = 0 THEN {<<>>}
    ELSE UNION {UNION {{<<t>> \o rest : rest \in DestrSuites(w - i, row + i,
                                                             scope \cup Declared(t))} :
                          t \in {u \in DestrStmts(i, row, scope) :
                                    u.k \in JUMPER => i = w}} : i \in 1..w}

DestrWeight == 3

DestrPrograms(weight) == UNION {DestrSuites(w, 1, {}) : w \in 1..weight}

RECURSIVE PassesByValue(_, _)
\* the body passes the variable v by value to a call
PassesByValue(suite, v) ==
    \E i \in 1..Len(suite) :
        \/ /\ suite[i].k = "expr"
           /\ \E j \in 1..Len(suite[i].e.args) :
                  suite[i].e.own[j] /\ suite[i].e.args[j].n = v
        \/ suite[i].k = "while" /\ PassesByValue(suite[i].suite, v)
        \/ suite[i].k = "if" /\ \E j \in 1..Len(suite[i].parts) :
                                    PassesByValue(suite[i].parts[j].suite, v)

DestrTypes(suite) ==
    [n \in {"a", "e", "x", "q", "c"} |->
        IF n \in {"a", "x"} THEN OwnerType
        ELSE IF n = "e" THEN [OwnerType EXCEPT !.esc = PassesByValue(suite, "e")]
        ELSE IF n = "q" THEN RefType
        ELSE PlainType]

(***************************************************************************)
(* The Destructor on one function, step by step, after the CFG builder and *)
(* the Uses/Moves checker.  de holds the pass's fields f, the steps it     *)
(* visits (order, the steps of the blocks as they were when the pass       *)
(* started: the Del steps it inserts are not visited) and the number i of  *)
(* steps visited, and, to state what the pass owes,                        *)
(*   scopes  the variables that hold a value in each open scope, the       *)
(*           arguments first, the innermost scope last                     *)
(*   live    for each Return visited, the variables that held a value      *)
(***************************************************************************)
DestrSpecInit ==
    /\ phase = "implicits"
    /\ ast \in {[suite |-> t, args |-> DestrArgs, types |-> DestrTypes(t)] : t \in DestrPrograms(DestrWeight)}
    /\ fl = FlowInit
    /\ uc = Idle
    /\ de = Idle
    /\ ex = Idle
    /\ es = Idle
    /\ pl = Idle
    /\ ty = Idle

\* the variables that hold a value in each open scope after step n
LiveAfter(scopes, n) ==
    CASE n.k = "BeginScope" -> Append(scopes, {})
      [] n.k = "EndScope" /\ scopes # <<>> -> SubSeq(scopes, 1, Len(scopes) - 1)
      [] n.k = "Assign" /\ n.left.e = "sym" /\ scopes # <<>>
         /\ \A k \in 1..Len(scopes) : n.left.n \notin scopes[k] ->
            [scopes EXCEPT ![Len(scopes)] = @ \cup {n.left.n}]
      [] n.k = "Del" /\ n.val.e = "sym" ->
            [k \in 1..Len(scopes) |-> scopes[k] \ {n.val.n}]
      [] OTHER -> scopes

\* Destructor.visit_function up to its loop over the blocks
DestrVisitFunction ==
    /\ phase = "uses"
    /\ de = Idle
    /\ de' = [k |-> "destr", order |-> VisitOrder(fl), i |-> 0,
              f |-> destr_define_arguments([st |-> fl, d |-> DestrFields], ast.args).d,
              scopes |-> <<ArgNames>>, live |-> {}]
    /\ UNCHANGED <<phase, ast, fl, uc, ex, es, pl, ty>>

DestrRunning == phase = "uses" /\ de.k = "destr" /\ de.f.crash = ""

\* one turn of the loop: self.curr_block, self.curr_step = block, step and
\* self.visit(step)
DestrVisitStep ==
    /\ DestrRunning
    /\ de.i < Len(de.order)
    /\ LET step == de.order[de.i + 1]
           n == fl.nodes[step]
       IN  Bind(destr_visit_step([st |-> fl, d |-> de.f], BlockOf(fl, step), step), LAMBDA s :
           /\ fl' = s.st
           /\ de' = [de EXCEPT !.i = @ + 1, !.f = s.d,
                               !.scopes = LiveAfter(@, n),
                               !.live = IF n.k = "Return"
                                        THEN @ \cup {[step |-> step,
                                                      names |-> UNION {de.scopes[k] :
                                                                  k \in 1..Len(de.scopes)}]}
                                        ELSE @])
    /\ UNCHANGED <<phase, ast, uc, ex, es, pl, ty>>

\* the end of Destructor.visit_function: the pass is recorded in fn.passes
DestrFinish ==
    /\ DestrRunning
    /\ de.i = Len(de.order)
    /\ phase' = "destructions"
    /\ UNCHANGED <<ast, fl, uc, de, ex, es, pl, ty>>

DestrNext ==
    \/ FlowVisitFunction
    \/ UsesVisitFunction \/ UsesVisitStep \/ UsesFinish
    \/ DestrVisitFunction \/ DestrVisitStep \/ DestrFinish

SpecDestr == DestrSpecInit /\ [][DestrNext]_vars

(***************************************************************************)
(* Properties of the Uses/Moves checker and of the functions it accepts    *)
(***************************************************************************)
\* the checker is about to visit a step
Visiting == UsesRunning /\ uc.i < Len(uc.order)

\* the places the step the checker visits next uses a variable or a field
NextSites == StepSites(fl.nodes[uc.order[uc.i + 1]])

\* the places the value of that step reads a variable or a field
NextReads == StepUseSites(fl.nodes[uc.order[uc.i + 1]])

\* the pairs of steps among the first i visited that invalidate the
\* reference held by key: y = &x, and after it an assignment to x
Invalidations(key, i) ==
    {p \in (1..i) \X (1..i) :
        /\ p[1] < p[2]
        /\ fl.nodes[uc.order[p[1]]].k = "Assign"
        /\ fl.nodes[uc.order[p[1]]].right.e = "ref"
        /\ get_name(fl.nodes[uc.order[p[1]]].left) = key
        /\ fl.nodes[uc.order[p[2]]].k = "Assign"
        /\ get_name(fl.nodes[uc.order[p[2]]].left) = get_name(fl.nodes[uc.order[p[1]]].right.v)}

\* the places of the next step that use a name of the moves map
MovedSites == {k \in 1..Len(NextSites) : DictHas(uc.f.moves, NextSites[k].key)}

\* the places of the next step that use an invalidated reference
InvalidSites == {k \in 1..Len(NextSites) : Invalidations(NextSites[k].key, uc.i) # {}}

\* the places of the next step that read a field that was moved, or the
\* owner of a field that was moved
PartialSites ==
    {k \in 1..Len(NextReads) :
        \E m \in 1..Len(uc.f.moves) :
            /\ IsTupleName(uc.f.moves[m].key)
            /\ uc.f.moves[m].key.n = NextReads[k].key.n
            /\ NextReads[k].key.f \in {"", uc.f.moves[m].key.f}}

\* C4: in a function the checker accepted no run, whatever way its branches
\* and loops go, reads a variable after a step moved its value away, unless
\* the variable was assigned a new value in between.
C4_NoReadAfterMoveOnAnyPath ==
    ex.k \in {"run", "done"} => ex.uam = ""

\* C5: when the checker visits a step that uses a name of the moves map
\* (and no invalidated reference), it raises a use-after-move error with two
\* positions: that of the node that was moved and that of the use.
C5_UseAfterMoveRaised ==
    [][(Visiting /\ MovedSites # {} /\ InvalidSites = {})
       => /\ uc'.f.err.kind = "use-after-move"
          /\ \E k \in MovedSites :
                 uc'.f.err.pos = <<DictGet(uc.f.moves, NextSites[k].key).pos, NextSites[k].pos>>
      ]_vars

\* C6: when y = &x was visited and, after it, an assignment to x, the
\* checker rejects the next step that uses y (and no name of the moves map)
\* with an error of three positions: the reference &x, the target of the
\* assignment, and the use.
C6_InvalidatedReferenceRejected ==
    [][(Visiting /\ InvalidSites # {} /\ MovedSites = {})
       => /\ uc'.f.err.kind = "reference-blocked"
          /\ \E k \in InvalidSites : \E p \in Invalidations(NextSites[k].key, uc.i) :
                 uc'.f.err.pos = <<fl.nodes[uc.order[p[1]]].right.pos,
                                   fl.nodes[uc.order[p[2]]].left.pos, NextSites[k].pos>>
      ]_vars

\* C7: in a function the checker accepted, at no point of a run does a
\* reference variable that is in scope refer to a variable whose scope has
\* ended.
C7_NoReferenceOutlivesReferent ==
    ex.k \in {"run", "done"} =>
        \A y \in RefNames : (InScope(y) /\ ex.pts[y] # "") => InScope(ex.pts[y])

\* C8: when the checker visits a step that reads a field whose key
\* (owner, field) is in the moves map, or the owner of such a field, it
\* rejects the step with a move error.
C8_PartialMoveRejected ==
    [][(Visiting /\ PartialSites # {})
       => uc'.f.err.kind \in {"partial-move", "use-after-move"}]_vars

\* C9: in a function the checker accepted, at no point of a run do two
\* mutable reference variables in scope refer to the same variable.
C9_NoTwoMutableReferences ==
    ex.k \in {"run", "done"} =>
        \A y1 \in RefNames : \A y2 \in RefNames \ {y1} :
            (/\ ast.types[y1].mut /\ ast.types[y2].mut
             /\ InScope(y1) /\ InScope(y2)
             /\ ex.pts[y1] # "") => ex.pts[y1] # ex.pts[y2]


(***************************************************************************)
(* Properties of the Flow the Destructor leaves behind                     *)
(***************************************************************************)
\* check_delete_variable frees v: wrapped, no reference, not escaping
Deletable(v) == ast.types[v].wrapped /\ ~ast.types[v].ref /\ ~ast.types[v].esc

\* a Del of v stands before the step in the step's block
DelBefore(step, v) ==
    LET steps == sorted_steps(fl, BlockOf(fl, step))
    IN  \E j \in 1..(IndexOf(steps, step) - 1) :
            fl.nodes[steps[j]].k = "Del" /\ fl.nodes[steps[j]].val.n = v

\* C10: when the Destructor has finished, every Return is preceded in its
\* block by a Del of every variable that held a value at that Return, in
\* the scope of the Return or in a scope around it, the arguments
\* included, and that is wrapped, no reference and not escaping.
C10_DelBeforeEveryReturn ==
    phase = "destructions" =>
        \A r \in de.live : \A v \in r.names : Deletable(v) => DelBefore(r.step, v)

(***************************************************************************)
(* A run of a function after the Destructor.  The functions have the       *)
(* arguments a (an owner) and c (a bool), declare x (an owner) and assign  *)
(* a and x; their loops may break and continue.  Nothing is moved and      *)
(* nothing escapes.                                                        *)
(***************************************************************************)
ScopeArgs == <<Argument("a", 1), Argument("c", 2)>>

ScopeTypes == [n \in {"a", "x", "c"} |-> IF n = "c" THEN PlainType ELSE OwnerType]

\* the statements of one row
ScopeSimple(row, scope, inloop) ==
    {Assign(SymAt("a", row, 1), At(Call(<<>>, <<>>), 10 * row + 2)),                \* a = foo()
     Return(NoExpr)}                                                                \* return
    \cup (IF "x" \in scope
          THEN {Assign(SymAt("x", row, 1), At(Call(<<>>, <<>>), 10 * row + 2))}     \* x = foo()
          ELSE {Var(SymAt("x", row, 1),
                    Assign(SymAt("x", row, 1), At(Call(<<>>, <<>>), 10 * row + 2)))}) \* var x = foo()
    \cup (IF inloop THEN {Break, Continue} ELSE {})

RECURSIVE ScopeStmts(_, _, _, _)
RECURSIVE ScopeSuites(_, _, _, _)
\* the statements of exactly w rows that start at row
ScopeStmts(w, row, scope, inloop) ==
    IF w = 1 THEN ScopeSimple(row, scope, inloop)
    ELSE {While(SymAt("c", row, 1), t) : t \in ScopeSuites(w - 1, row + 1, scope, TRUE)}
         \cup {If(<<Part(SymAt("c", row, 1), t)>>) :
                  t \in ScopeSuites(w - 1, row + 1, scope, inloop)}

\* the suites of exactly w rows that start at row; nothing follows a return,
\* a break or a continue
ScopeSuites(w, row, scope, inloop) ==
    IF w = 0 THEN {<<>>}
    ELSE UNION {UNION {{<<t>> \o rest : rest \in ScopeSuites(w - i, row + i,
                                                             scope \cup Declared(t), inloop)} :
                          t \in {u \in ScopeStmts(i, row, scope, inloop) :
                                    u.k \in JUMPER => i = w}} : i \in 1..w}

ScopeWeight == 4

ScopePrograms(weight) == UNION {ScopeSuites(w, 1, {}, FALSE) : w \in 1..weight}

ScopeSpecInit ==
    /\ phase = "implicits"
    /\ ast \in {[suite |-> t, args |-> ScopeArgs, types |-> ScopeTypes] : t \in ScopePrograms(ScopeWeight)}
    /\ fl = FlowInit
    /\ uc = Idle
    /\ de = Idle
    /\ ex = Idle
    /\ es = Idle
    /\ pl = Idle
    /\ ty = Idle

(***************************************************************************)
(* ex holds the walk's position (block b, rank i of the step to run next)  *)
(* and                                                                     *)
(*   scopes   the variables declared in each open scope, innermost last    *)
(*   held     the variables that own a value                               *)
(*   ended    the variables of the scopes whose EndScope marker the block  *)
(*            has passed: the Del steps of a scope stand before the block's*)
(*            terminator, which may be behind the marker                   *)
(*   depth    for each block a branch names, the number of scopes open     *)
(*            where the block starts (-1 while no branch named it)         *)
(*   leaked   the variables that owned a value when the run left their     *)
(*            scope, with the way it left (by = "end", "jump", "return")   *)
(*   stored   the variable the last step assigned while it owned a value,  *)
(*            "" when there is none                                        *)
(*   assigned the attributes of self the run has assigned                  *)
(***************************************************************************)
\* the variables declared in the scopes from..Len(scopes)
NamesFrom(scopes, from) == UNION {scopes[k] : k \in from..Len(scopes)}

Leaks(names, held, by) == {[v |-> v, by |-> by] : v \in {u \in names \cap held : Deletable(u)}}

\* the scope depth a branch finds recorded for its targets, recording the
\* present depth for the ones it names first
DepthsAfter(depth, n, d) ==
    LET named == CASE n.k = "Branch" -> {n.tgt}
                   [] n.k = "CondBranch" -> {n.tgt, n.fls}
                   [] OTHER -> {}
    IN  [b \in DOMAIN depth |-> IF b \in named /\ depth[b] = -1 THEN d ELSE depth[b]]

\* the attribute of self a step assigns
AttributesSetBy(n) ==
    IF n.k = "Assign" /\ n.left.e = "setattr" /\ n.left.o.e = "sym" /\ n.left.o.n = "self"
    THEN {n.left.f} ELSE {}

\* the function is called
ExecStart ==
    /\ phase = "destructions"
    /\ ex = Idle
    /\ ex' = [k |-> "exec", b |-> sorted_blocks(fl)[1], i |-> 1,
              scopes |-> <<>>, held |-> ArgNames, ended |-> {},
              depth |-> [b \in 1..Len(fl.bh) |-> -1], leaked |-> {}, stored |-> "",
              assigned |-> {}]
    /\ UNCHANGED <<phase, ast, fl, uc, de, es, pl, ty>>

\* the run executes its next step
ExecStep ==
    /\ ex.k = "exec"
    /\ ex.b # None
    /\ ex.i <= Len(fl.bh[ex.b].steps)
    /\ LET n == fl.nodes[sorted_steps(fl, ex.b)[ex.i]]
           d == Len(ex.scopes)
           assigned == AssignedBy(n)
           popped == IF n.k = "EndScope" /\ d > 0 THEN ex.scopes[d] ELSE {}
           here == [ex EXCEPT
                       !.scopes = ScopesAfter(@, n),
                       !.held = IF n.k = "Del" /\ n.val.e = "sym" THEN @ \ {n.val.n}
                                ELSE @ \cup assigned,
                       !.ended = @ \cup popped,
                       !.depth = DepthsAfter(@, n, d),
                       !.stored = IF assigned \cap ex.held # {}
                                  THEN CHOOSE v \in assigned \cap ex.held : TRUE ELSE "",
                       !.assigned = @ \cup AttributesSetBy(n)]
       IN  CASE n.k = "Return" ->
                  ex' = [here EXCEPT !.k = "done",
                            !.leaked = @ \cup Leaks(NamesFrom(ex.scopes, 1) \cup ex.ended
                                                    \cup ArgNames, ex.held, "return")]
             [] Continuations(n, ex.b, ex.i) = {} ->
                  ex' = [here EXCEPT !.k = "done"]
             [] n.k \in {"Branch", "CondBranch"} ->
                  \E c \in Continuations(n, ex.b, ex.i) :
                      LET to == IF here.depth[c.b] < d THEN here.depth[c.b] ELSE d
                      IN  ex' = [here EXCEPT
                                    !.b = c.b, !.i = c.i, !.ended = {},
                                    !.scopes = SubSeq(@, 1, to),
                                    !.leaked = @ \cup Leaks(ex.ended, ex.held, "end")
                                                 \cup Leaks(NamesFrom(ex.scopes, to + 1),
                                                            ex.held, "jump")]
             [] OTHER ->
                  \E c \in Continuations(n, ex.b, ex.i) :
                      ex' = [here EXCEPT !.b = c.b, !.i = c.i]
    /\ UNCHANGED <<phase, ast, fl, uc, de, es, pl, ty>>

ScopeNext ==
    \/ FlowVisitFunction
    \/ UsesVisitFunction \/ UsesVisitStep \/ UsesFinish
    \/ DestrVisitFunction \/ DestrVisitStep \/ DestrFinish
    \/ ExecStart \/ ExecStep

SpecScopes == ScopeSpecInit /\ [][ScopeNext]_vars

(***************************************************************************)
(* Properties of the runs of a function the Destructor has worked on       *)
(***************************************************************************)
\* C11: after the Destructor, on every path of the CFG that leaves the
\* scope of a wrapped, non-reference, non-escaping binding which owns a
\* value (by the end of the scope, by break, by continue or by return), a
\* Del of the binding is executed before the path leaves the scope.
C11_DelBeforeLeavingScope == ex.k \in {"exec", "done"} => ex.leaked = {}

\* the step the Destructor visits next
NextStep == de.order[de.i + 1]

\* the Destructor is about to visit an assignment to a variable that owns
\* heap content: the variable is defined, initialized, wrapped and no
\* reference
Reassigning ==
    /\ DestrRunning
    /\ de.i < Len(de.order)
    /\ LET n == fl.nodes[NextStep]
       IN  /\ n.k = "Assign"
           /\ n.left.e = "sym"
           /\ TypeOf(n.left).wrapped /\ ~TypeOf(n.left).ref
           /\ ScopesHas(de.f.definitions, get_name(n.left))
           /\ ScopesGet(de.f.definitions, get_name(n.left)).initialized

\* in the Flow st a Del of the variable v stands immediately before the step
DelJustBefore(st, step, v) ==
    LET steps == sorted_steps(st, BlockOf(st, step))
        i == IndexOf(steps, step)
    IN  i > 1 /\ st.nodes[steps[i - 1]].k = "Del" /\ st.nodes[steps[i - 1]].val.n = v

\* C12: when the Destructor visits an assignment to a binding that already
\* owns heap content, it inserts a Del of the binding immediately before
\* the assignment step.
C12_DelBeforeReassignment ==
    [][Reassigning => DelJustBefore(fl', NextStep, fl.nodes[NextStep].left.n)]_vars

(***************************************************************************)
(* The Destructor on a constructor: fn.self_type is a class and fn.name is *)
(* "__init__".  The class has the attributes f and g, its id and vt$, an   *)
(* attribute the compiler made; the constructor has the arguments self (a  *)
(* mutable reference, which escapes) and c (a bool) and assigns integers   *)
(* to the attributes.                                                      *)
(***************************************************************************)
CtorAttributes == <<"f", "g", "id", "vt$">>

\* "$" in attribute
HasDollar(attribute) == attribute \in {"vt$"}

CtorArgs == <<Argument("self", 1), Argument("c", 2)>>

CtorTypes == [n \in {"self", "c"} |->
                 IF n = "self" THEN [MutRefType EXCEPT !.esc = TRUE] ELSE PlainType]

\* the statements of one row
CtorSimple(row) ==
    {Assign(At(Attr(SymAt("self", row, 1), "f"), 10 * row + 3), IntLit),            \* self.f = 1
     Assign(At(Attr(SymAt("self", row, 1), "g"), 10 * row + 3), IntLit),            \* self.g = 1
     Pass,
     Return(NoExpr)}

RECURSIVE CtorStmts(_, _)
RECURSIVE CtorSuites(_, _)
\* the statements of exactly w rows that start at row
CtorStmts(w, row) ==
    IF w = 1 THEN CtorSimple(row)
    ELSE {While(SymAt("c", row, 1), t) : t \in CtorSuites(w - 1, row + 1)}
         \cup {If(<<Part(SymAt("c", row, 1), t)>>) : t \in CtorSuites(w - 1, row + 1)}

\* the suites of exactly w rows that start at row; nothing follows a return
CtorSuites(w, row) ==
    IF w = 0 THEN {<<>>}
    ELSE UNION {UNION {{<<t>> \o rest : rest \in CtorSuites(w - i, row + i)} :
                          t \in {u \in CtorStmts(i, row) : u.k \in JUMPER => i = w}} :
                   i \in 1..w}

CtorWeight == 4

CtorPrograms(weight) == UNION {CtorSuites(w, 1) : w \in 1..weight}

CtorSpecInit ==
    /\ phase = "implicits"
    /\ ast \in {[suite |-> t, args |-> CtorArgs, types |-> CtorTypes,
                 name |-> "__init__", attributes |-> CtorAttributes] : t \in CtorPrograms(CtorWeight)}
    /\ fl = FlowInit
    /\ uc = Idle
    /\ de = Idle
    /\ ex = Idle
    /\ es = Idle
    /\ pl = Idle
    /\ ty = Idle

RECURSIVE destr_define_attributes(_, _, _)
\* for attribute in self.fn.self_type.attributes: ...
\*     self.define_variable(attribute, self.fn.name != "__init__")
destr_define_attributes(s, attributes, name) ==
    IF attributes = <<>> THEN s
    ELSE destr_define_attributes(
             destr_define_variable(s, Attr(Sym("self"), Head(attributes)), name # "__init__"),
             Tail(attributes), name)

\* Destructor.visit_function on a method, up to its loop over the blocks
CtorVisitFunction ==
    /\ phase = "uses"
    /\ de = Idle
    /\ de' = [k |-> "destr", order |-> VisitOrder(fl), i |-> 0,
              f |-> destr_define_arguments(
                        destr_define_attributes([st |-> fl, d |-> DestrFields],
                                                ast.attributes, ast.name),
                        ast.args).d,
              scopes |-> <<ArgNames>>, live |-> {}, err |-> <<>>]
    /\ UNCHANGED <<phase, ast, fl, uc, ex, es, pl, ty>>

\* the attributes the check at the end of visit_function finds uninitialized
non_initialized(definitions, attributes) ==
    SelectSeq(attributes, LAMBDA attribute :
        /\ ~ScopesGet(definitions, [n |-> "self", f |-> attribute]).initialized
        /\ attribute # "id"
        /\ ~HasDollar(attribute))

\* the end of Destructor.visit_function on a constructor: util.Error with
\* the uninitialized attributes, or the pass is recorded in fn.passes
CtorFinish ==
    /\ DestrRunning
    /\ de.i = Len(de.order)
    /\ LET missing == non_initialized(de.f.definitions, ast.attributes)
       IN  IF ast.name = "__init__" /\ Len(missing) > 0
           THEN /\ de' = [de EXCEPT !.k = "error", !.err = missing]
                /\ UNCHANGED phase
           ELSE /\ phase' = "destructions"
                /\ UNCHANGED de
    /\ UNCHANGED <<ast, fl, uc, ex, es, pl, ty>>

CtorNext ==
    \/ FlowVisitFunction
    \/ UsesVisitFunction \/ UsesVisitStep \/ UsesFinish
    \/ CtorVisitFunction \/ DestrVisitStep \/ CtorFinish
    \/ ExecStart \/ ExecStep

SpecCtor == CtorSpecInit /\ [][CtorNext]_vars

\* the attributes a constructor has to assign
RequiredAttributes ==
    {ast.attributes[k] : k \in {j \in 1..Len(ast.attributes) :
                                   ast.attributes[j] # "id" /\ ~HasDollar(ast.attributes[j])}}

\* C13: a constructor __init__ is accepted only if every declared attribute
\* of its class, except id and the names containing "$", is assigned on
\* every normal execution path from the entry to each return: no run of an
\* accepted constructor returns with such an attribute unassigned.
C13_AttributesAssignedOnEveryPath ==
    (ast.name = "__init__" /\ ex.k = "done") => RequiredAttributes \subseteq ex.assigned

(***************************************************************************)
(* EscapesAnalyser (cfg_passes/escapes.py).  f holds the pass object's     *)
(* escaping_objects, a set of names, and marked, the source positions of   *)
(* the nodes whose must_escape the pass has set, and crash.  The functions *)
(* are plain functions and the calls are no method calls.                  *)
(***************************************************************************)
EscapesFields == [escaping_objects |-> {}, marked |-> {}, crash |-> ""]

\* EscapesAnalyser.visit_symbol
esc_visit_symbol(f, node, mark_as_escaping) ==
    LET objects == IF mark_as_escaping THEN f.escaping_objects \cup {node.n}
                   ELSE f.escaping_objects
    IN  [f EXCEPT !.escaping_objects = objects,
                  !.marked = IF node.n \in objects THEN @ \cup {node.pos} ELSE @]

\* EscapesAnalyser.check_must_escape
check_must_escape(f, node, mark_as_escaping) ==
    IF mark_as_escaping THEN [f EXCEPT !.marked = @ \cup {node.pos}] ELSE f

RECURSIVE esc_visit(_, _, _)
RECURSIVE esc_visit_args(_, _, _, _)
\* EscapesAnalyser.visit on an expression
esc_visit(f, node, mark_as_escaping) ==
    CASE node.e = "sym" -> esc_visit_symbol(f, node, mark_as_escaping)
      [] node.e = "str" -> check_must_escape(f, node, mark_as_escaping)   \* visit_string
      [] node.e \in {"attr", "setattr"} -> esc_visit(f, node.o, mark_as_escaping)
      [] node.e = "ref" -> esc_visit(f, node.v, mark_as_escaping)
      [] node.e = "call" -> esc_visit_args(f, node, 1, mark_as_escaping)
      [] node.e = "phi" ->
            esc_visit(esc_visit(f, node.lv, mark_as_escaping), node.rv, mark_as_escaping)
      [] OTHER -> f                                                        \* visit_int

\* EscapesAnalyser.visit_call: for i, arg_type in enumerate(...over["args"])
esc_visit_args(f, node, i, mark_as_escaping) ==
    IF i > Len(node.own) THEN f
    ELSE IF i > Len(node.args) THEN [f EXCEPT !.crash = "IndexError"]
    ELSE esc_visit_args(esc_visit(f, node.args[i], node.own[i] \/ mark_as_escaping),
                        node, i + 1, mark_as_escaping)

\* EscapesAnalyser.visit_assign
esc_visit_assign(f, n) ==
    IF n.left.e = "sym"
    THEN Bind(esc_visit_symbol(f, n.left, FALSE), LAMBDA f1 :
         esc_visit(f1, n.right, n.left.n \in f1.escaping_objects))
    ELSE IF n.left.e = "setattr"
    THEN esc_visit(esc_visit(f, n.left, TRUE), n.right, TRUE)
    ELSE f

\* EscapesAnalyser.visit, for a step; a missing value (None) has no visit
\* method
esc_visit_step(f, n) ==
    CASE n.k = "Assign" -> esc_visit_assign(f, n)
      [] n.k \in {"Return", "Yield"} ->
            IF n.val.e = "none" THEN f ELSE esc_visit(f, n.val, TRUE)
      [] n.k = "Raise" ->
            IF n.val.e = "none" THEN [f EXCEPT !.crash = "AttributeError"]
            ELSE esc_visit(f, n.val, TRUE)
      [] n.k = "Call" -> esc_visit(f, n.right, FALSE)
      [] n.k = "Del" -> esc_visit(f, n.val, FALSE)
      [] n.k = "VariableDeclaration" -> esc_visit(f, n.left, FALSE)
      [] OTHER -> f           \* scope markers, branches, pass: nothing

ReverseOf(seq) == [k \in 1..Len(seq) |-> seq[Len(seq) + 1 - k]]

(***************************************************************************)
(* The functions the escape analysis is run on.  A function has the        *)
(* arguments b and t (wrapped values) and c (a bool); it assigns b and t   *)
(* to one another, assigns them string literals and returns them.          *)
(***************************************************************************)
EscArgs == <<Argument("b", 1), Argument("t", 2), Argument("c", 3)>>

EscTypes == [n \in {"b", "t", "c"} |-> IF n = "c" THEN PlainType ELSE OwnerType]

\* the statements of one row
EscSimple(row) ==
    {Assign(SymAt("b", row, 1), SymAt("t", row, 2)),                                \* b = t
     Assign(SymAt("t", row, 1), SymAt("b", row, 2)),                                \* t = b
     Assign(SymAt("b", row, 1), At(StrLit, 10 * row + 2)),                          \* b = "s"
     Assign(SymAt("t", row, 1), At(StrLit, 10 * row + 2)),                          \* t = "s"
     Return(SymAt("b", row, 1)),                                                    \* return b
     Return(SymAt("t", row, 1))}                                                    \* return t

RECURSIVE EscStmts(_, _)
RECURSIVE EscSuites(_, _)
\* the statements of exactly w rows that start at row
EscStmts(w, row) ==
    IF w = 1 THEN EscSimple(row)
    ELSE {While(SymAt("c", row, 1), t) : t \in EscSuites(w - 1, row + 1)}
         \cup {If(<<Part(SymAt("c", row, 1), t)>>) : t \in EscSuites(w - 1, row + 1)}

\* the suites of exactly w rows that start at row; nothing follows a return
EscSuites(w, row) ==
    IF w = 0 THEN {<<>>}
    ELSE UNION {UNION {{<<t>> \o rest : rest \in EscSuites(w - i, row + i)} :
                          t \in {u \in EscStmts(i, row) : u.k \in JUMPER => i = w}} :
                   i \in 1..w}

EscWeight == 4

\* the functions that end in a return
EscPrograms(weight) ==
    {t \in UNION {EscSuites(w, 1) : w \in 1..weight} : t[Len(t)].k = "return"}

EscSpecInit ==
    /\ phase = "implicits"
    /\ ast \in {[suite |-> t, args |-> EscArgs, types |-> EscTypes] : t \in EscPrograms(EscWeight)}
    /\ fl = FlowInit
    /\ uc = Idle
    /\ de = Idle
    /\ ex = Idle
    /\ es = Idle
    /\ pl = Idle
    /\ ty = Idle

\* EscapesAnalyser.visit_function up to its loop: the blocks and the steps
\* of each block are visited in descending id order
EscVisitFunction ==
    /\ phase = "flow"
    /\ fl.crash = ""
    /\ es = Idle
    /\ es' = [k |-> "escapes", order |-> ReverseOf(VisitOrder(fl)), i |-> 0,
              f |-> EscapesFields, args |-> {}]
    /\ UNCHANGED <<phase, ast, fl, uc, de, ex, pl, ty>>

EscRunning == phase = "flow" /\ es.k = "escapes" /\ es.f.crash = ""

\* one turn of the loop: self.visit(step)
EscVisitStep ==
    /\ EscRunning
    /\ es.i < Len(es.order)
    /\ es' = [es EXCEPT !.i = @ + 1, !.f = esc_visit_step(@, fl.nodes[es.order[es.i + 1]])]
    /\ UNCHANGED <<phase, ast, fl, uc, de, ex, pl, ty>>

\* the end of visit_function: arg.must_escape is set for every argument and
\* the pass is recorded in fn.passes
EscFinish ==
    /\ EscRunning
    /\ es.i = Len(es.order)
    /\ es' = [es EXCEPT !.args = ArgNames \cap es.f.escaping_objects]
    /\ phase' = "escapes"
    /\ UNCHANGED <<ast, fl, uc, de, ex, pl, ty>>

(***************************************************************************)
(* A run of the function after the escape analysis, to see which values    *)
(* reach a Return.  A value is the argument it came in with (arg) or the   *)
(* string literal that made it (lit, the literal's position).  ex holds    *)
(*   holds   for each variable the value it holds                          *)
(*   via     for each variable the bindings its value has passed through   *)
(*   ret     the value a Return returned and the bindings it passed        *)
(*           through, the returned one included                            *)
(***************************************************************************)
ArgValue(name) == [arg |-> name, lit |-> None]
LitValue(pos) == [arg |-> "", lit |-> pos]
NoValue == [arg |-> "", lit |-> None]

FlowStart ==
    /\ phase = "escapes"
    /\ ex = Idle
    /\ ex' = [k |-> "values", b |-> sorted_blocks(fl)[1], i |-> 1,
              holds |-> [v \in ArgNames |-> ArgValue(v)],
              via |-> [v \in ArgNames |-> {}],
              ret |-> [val |-> NoValue, names |-> {}]]
    /\ UNCHANGED <<phase, ast, fl, uc, de, es, pl, ty>>

FlowStep ==
    /\ ex.k = "values"
    /\ ex.b # None
    /\ ex.i <= Len(fl.bh[ex.b].steps)
    /\ LET n == fl.nodes[sorted_steps(fl, ex.b)[ex.i]]
           here ==
               IF n.k = "Assign" /\ n.left.e = "sym" /\ n.left.n \in DOMAIN ex.holds
               THEN IF n.right.e = "sym" /\ n.right.n \in DOMAIN ex.holds
                    THEN [ex EXCEPT !.holds[n.left.n] = ex.holds[n.right.n],
                                    !.via[n.left.n] = ex.via[n.right.n] \cup {n.right.n}]
                    ELSE IF n.right.e = "str"
                    THEN [ex EXCEPT !.holds[n.left.n] = LitValue(n.right.pos),
                                    !.via[n.left.n] = {}]
                    ELSE [ex EXCEPT !.holds[n.left.n] = NoValue, !.via[n.left.n] = {}]
               ELSE IF n.k = "Return" /\ n.val.e = "sym" /\ n.val.n \in DOMAIN ex.holds
               THEN [ex EXCEPT !.ret = [val |-> ex.holds[n.val.n],
                                        names |-> ex.via[n.val.n] \cup {n.val.n}]]
               ELSE ex
       IN  IF Continuations(n, ex.b, ex.i) = {}
           THEN ex' = [here EXCEPT !.k = "returned"]
           ELSE \E c \in Continuations(n, ex.b, ex.i) :
                    ex' = [here EXCEPT !.b = c.b, !.i = c.i]
    /\ UNCHANGED <<phase, ast, fl, uc, de, es, pl, ty>>

EscNext ==
    \/ FlowVisitFunction
    \/ EscVisitFunction \/ EscVisitStep \/ EscFinish
    \/ FlowStart \/ FlowStep

SpecEscapes == EscSpecInit /\ [][EscNext]_vars

\* C14: after the escape analysis, a value that flows through a chain of
\* assignments along a path of the CFG, loop back edges included, into the
\* value of a Return is marked escaping, and so is every binding on the
\* chain: the string literal that made the value has must_escape set, the
\* argument it came in with has must_escape set, and every binding it
\* passed through is an escaping object.
C14_ReturnedValuesMarkedEscaping ==
    ex.k = "returned" =>
        /\ ex.ret.val.lit # None => ex.ret.val.lit \in es.f.marked
        /\ ex.ret.val.arg # "" => ex.ret.val.arg \in es.args
        /\ ex.ret.names \subseteq es.f.escaping_objects

(***************************************************************************)
(* The CFG builder on functions whose body is one try statement.  Every    *)
(* call of the function stands in the try suite: as a statement, as the    *)
(* right-hand side of an assignment, as the condition of an if or a while, *)
(* or in a suite nested in the try suite.  The handler is `pass`.          *)
(***************************************************************************)
TryConds == {Sym("c"), Call(<<>>, <<>>)}

TrySimple == {ExprStmt(Call(<<>>, <<>>)), Assign(Sym("x"), Call(<<>>, <<>>)), Pass}

RECURSIVE TryStmts(_)
RECURSIVE TrySuites(_)
\* the statements of exactly w statements
TryStmts(w) ==
    IF w < 1 THEN {}
    ELSE IF w = 1 THEN TrySimple
    ELSE {While(c, s) : c \in TryConds, s \in TrySuites(w - 1)}
         \cup {If(<<Part(c, s)>>) : c \in TryConds, s \in TrySuites(w - 1)}

\* the suites of exactly w statements; nothing follows a pass
TrySuites(w) ==
    IF w < 1 THEN {}
    ELSE {<<s>> : s \in TryStmts(w)}
         \cup UNION {{<<s>> \o r : s \in {x \in TryStmts(i) : x.k \notin JUMPER},
                                   r \in TrySuites(w - i)} : i \in 1..(w - 1)}

TryWeight == 4

TryPrograms(weight) == {<<TryBlock(s, <<Pass>>)>> : s \in UNION {TrySuites(w) : w \in 1..weight}}

TrySpecInit ==
    /\ phase = "implicits"
    /\ ast \in {[suite |-> s] : s \in TryPrograms(TryWeight)}
    /\ fl = FlowInit
    /\ uc = Idle
    /\ de = Idle
    /\ ex = Idle
    /\ es = Idle
    /\ pl = Idle
    /\ ty = Idle

TryNext == FlowVisitFunction

SpecTry == TrySpecInit /\ [][TryNext]_vars

\* the step is a call or assigns the result of a call
IsCallStep(n) == n.k = "Call" \/ (n.k = "Assign" /\ n.right.e = "call")

\* the landing-pad block of the function's try statement
LandingPadBlocks(st) == {b \in FlowBlockSet(st) : st.bh[b].ann = "landing-pad"}

\* the step at rank i of block b is a call that ends the block (scope
\* markers aside) and carries a call_branch to a block of the Flow and to
\* the landing pad
CallEndsBlock(st, b, i) ==
    LET steps == sorted_steps(st, b)
        n == st.nodes[steps[i]]
    IN  /\ \A j \in (i + 1)..Len(steps) : st.nodes[steps[j]].k = "EndScope"
        /\ n.cb
        /\ n.cbe \in LandingPadBlocks(st)
        /\ n.cbn \in FlowBlockSet(st)

\* C15: every potentially-raising call lowered inside a try suite, at any
\* statement position, ends its block and carries a call_branch whose
\* exception_block is the landing-pad block of the try and whose
\* normal_block is a block of the Flow, the one in which lowering went on.
C15_CallsInTryEndTheirBlock ==
    FlowDone =>
        \A b \in FlowBlockSet(fl) : \A i \in 1..Len(fl.bh[b].steps) :
            IsCallStep(fl.nodes[sorted_steps(fl, b)[i]]) => CallEndsBlock(fl, b, i)

(***************************************************************************)
(* The pass pipeline over the functions of one module (compiler.py,        *)
(* process_file; each pass's process and visit_function; util.py,          *)
(* check_previous_pass).  pl holds                                         *)
(*   fns        the Function objects: passes is fn.passes, done the passes *)
(*              whose transformation was carried out on the function's     *)
(*              AST and CFG (a deep copy carries both along)               *)
(*   functions  module.functions, a list of Function objects               *)
(*   pass       the rank in PASSES of the pass being run                   *)
(*   idx        how many entries of module.functions the loop of process   *)
(*              has taken                                                  *)
(*   typer_fn   the field fn of the module's Typer                         *)
(***************************************************************************)
PASSES == <<"expressions", "implicits", "flow", "typing", "specialization",
            "escapes", "uses", "destructions">>

PassRank(name) == CHOOSE k \in 1..Len(PASSES) : PASSES[k] = name

\* util.PASSES_PRECEDENCE, "" for None
PASSES_PRECEDENCE(name) == IF PassRank(name) = 1 THEN "" ELSE PASSES[PassRank(name) - 1]

\* the passes whose visit_function calls util.check_previous_pass
ChecksPrevious == {"flow", "typing", "specialization", "uses"}

\* the passes whose visit_function asks types.is_concrete(fn) as well
ChecksConcrete == {"typing", "specialization", "escapes", "uses", "destructions"}

\* ast.Function: type_vars says the function is a template, yields that its
\* suite holds a yield, calls names the template the suite calls (None when
\* it calls none), method that it is a method of a class
Function(type_vars, yields, calls, method) ==
    [passes |-> <<>>, done |-> <<>>, type_vars |-> type_vars, yields |-> yields,
     is_generator |-> FALSE, calls |-> calls, method |-> method, of |-> None]

SeqHas(seq, x) == \E k \in 1..Len(seq) : seq[k] = x

\* list.remove: without the first entry equal to x
ListRemove(seq, x) ==
    LET k == CHOOSE j \in 1..Len(seq) : seq[j] = x /\ \A i \in 1..(j - 1) : seq[i] # x
    IN  SubSeq(seq, 1, k - 1) \o SubSeq(seq, k + 1, Len(seq))

PipeCrash(st, why) == [st EXCEPT !.crash = IF @ = "" THEN why ELSE @]

\* ImplicitsProcessor.create_generator_class: __init__, __iter__ and
\* __next__ are new Function objects; __next__ gets a deep copy of the
\* statements of the generator function; the function leaves the list
create_generator_class(st, f) ==
    LET n == Len(st.fns)
        init_fn == Function(FALSE, FALSE, None, TRUE)
        iter_fn == Function(FALSE, FALSE, None, TRUE)
        next_fn == [Function(FALSE, TRUE, st.fns[f].calls, TRUE) EXCEPT !.done = st.fns[f].done]
    IN  IF ~SeqHas(st.functions, f) THEN PipeCrash(st, "ValueError")
        ELSE [st EXCEPT !.fns = @ \o <<init_fn, iter_fn, next_fn>>,
                        !.functions = ListRemove(@ \o <<n + 1, n + 2, n + 3>>, f)]

\* the derived functions of template t
DerivedOf(st, t) == {g \in 1..Len(st.fns) : st.fns[g].of = t}

\* types.get_function: the first call with these actual types makes a deep
\* copy of the template and appends it to module.functions
get_function(st, t) ==
    IF DerivedOf(st, t) # {} THEN st
    ELSE [st EXCEPT !.fns = Append(@, [st.fns[t] EXCEPT !.type_vars = FALSE, !.of = t]),
                    !.functions = Append(@, Len(st.fns) + 1)]

\* types.is_concrete(fn) of a function no type derives from anyint, anyfloat
pipe_is_concrete(st, f) == ~st.fns[f].type_vars

\* the guard of a pass that does not look at fn.passes
PassGuardAlways(st, name, f) == name \in ChecksConcrete => pipe_is_concrete(st, f)

\* the condition under which visit_function of the pass does its work
PassGuard(st, name, f) ==
    /\ ~SeqHas(st.fns[f].passes, name)
    /\ name \in ChecksConcrete => pipe_is_concrete(st, f)

\* what visit_function of the pass does to the function and the module
PassBody(st, name, f) ==
    LET s1 == IF name = "typing" THEN [st EXCEPT !.typer_fn = f] ELSE st
        s2 == CASE name = "expressions" ->
                      [s1 EXCEPT !.fns[f].is_generator = @ \/ s1.fns[f].yields]
                [] name = "implicits" /\ s1.fns[f].is_generator -> create_generator_class(s1, f)
                [] name = "typing" /\ s1.fns[f].calls # None -> get_function(s1, s1.fns[f].calls)
                [] OTHER -> s1
    IN  [s2 EXCEPT !.fns[f].done = Append(@, name)]

\* fn.passes.append(PASS_NAME); the Typer appends to self.fn.passes
PassRecord(st, name, f) ==
    LET target == IF name = "typing" THEN st.typer_fn ELSE f
    IN  IF target = None THEN PipeCrash(st, "AttributeError")
        ELSE [st EXCEPT !.fns[target].passes = Append(@, name)]

RECURSIVE pipe_visit_function(_, _, _)
\* util.check_previous_pass
check_previous_pass(st, f, name) ==
    IF PASSES_PRECEDENCE(name) # "" /\ ~SeqHas(st.fns[f].passes, PASSES_PRECEDENCE(name))
    THEN pipe_visit_function(st, PASSES_PRECEDENCE(name), f)
    ELSE st

\* visit_function of the pass called name
pipe_visit_function(st, name, f) ==
    LET s1 == IF name \in ChecksPrevious THEN check_previous_pass(st, f, name) ELSE st
    IN  IF s1.crash # "" THEN s1
        ELSE LET s2 == IF PassGuard(s1, name, f) THEN PassBody(s1, name, f) ELSE s1
             IN  IF s2.crash # "" THEN s2 ELSE PassRecord(s2, name, f)

\* Typer.process: module.functions is rebuilt from the symbols: the methods
\* of the classes, then the functions without type_vars
typing_functions(st) ==
    LET all == 1..Len(st.fns)
        replaced(f) == st.fns[f].is_generator /\ SeqHas(st.fns[f].done, "implicits")
        listed(f) == ~st.fns[f].type_vars /\ ~replaced(f)
        methods == SelectSeq([k \in all |-> k], LAMBDA f : listed(f) /\ st.fns[f].method)
        plain == SelectSeq([k \in all |-> k], LAMBDA f : listed(f) /\ ~st.fns[f].method)
    IN  methods \o plain

(***************************************************************************)
(* The modules: up to MaxFunctions functions, each a plain function, a     *)
(* generator function, a template, or a function that calls the first      *)
(* template of the module.                                                 *)
(***************************************************************************)
MaxFunctions == 3

FunctionKinds == {"plain", "generator", "template", "caller"}

FirstTemplate(kinds) ==
    CHOOSE k \in 1..Len(kinds) : kinds[k] = "template" /\ \A j \in 1..(k - 1) : kinds[j] # "template"

FunctionOf(kinds, k) ==
    CASE kinds[k] = "plain" -> Function(FALSE, FALSE, None, FALSE)
      [] kinds[k] = "generator" -> Function(FALSE, TRUE, None, FALSE)
      [] kinds[k] = "template" -> Function(TRUE, FALSE, None, FALSE)
      [] kinds[k] = "caller" -> Function(FALSE, FALSE, FirstTemplate(kinds), FALSE)

\* a caller needs a template to call
ModuleKinds ==
    {kinds \in UNION {[1..n -> FunctionKinds] : n \in 1..MaxFunctions} :
        SeqHas(kinds, "caller") => SeqHas(kinds, "template")}

\* Module.__init__ (module.py 334) lists every function that has a suite
PipeInit(kinds) ==
    [k |-> "ready", fns |-> [k \in 1..Len(kinds) |-> FunctionOf(kinds, k)],
     functions |-> [k \in 1..Len(kinds) |-> k], pass |-> 1, idx |-> 0,
     typer_fn |-> None, crash |-> "", again |-> <<>>]

PipeSpecInit ==
    /\ phase = "pipeline"
    /\ ast = Idle
    /\ fl = FlowInit
    /\ uc = Idle
    /\ de = Idle
    /\ ex = Idle
    /\ es = Idle
    /\ pl \in {PipeInit(kinds) : kinds \in ModuleKinds}
    /\ ty = Idle

\* process_file: Processor(module).process() of the next pass starts; the
\* Typer first rebuilds module.functions
ProcessStart ==
    /\ pl.k = "ready"
    /\ pl' = [pl EXCEPT !.k = "loop", !.idx = 0,
                        !.functions = IF PASSES[pl.pass] = "typing" THEN typing_functions(pl) ELSE @]
    /\ UNCHANGED <<phase, ast, fl, uc, de, ex, es, ty>>

\* `for fn in self.module.functions: self.visit_function(fn)` takes the next
\* entry of the list as it is now
ProcessVisit ==
    /\ pl.k = "loop"
    /\ pl.idx < Len(pl.functions)
    /\ LET after == pipe_visit_function([pl EXCEPT !.idx = @ + 1], PASSES[pl.pass],
                                        pl.functions[pl.idx + 1])
       IN  pl' = IF after.crash # "" THEN [after EXCEPT !.k = "crashed"] ELSE after
    /\ UNCHANGED <<phase, ast, fl, uc, de, ex, es, ty>>

\* the loop of process is over; module.processors[pass_name] = processor
ProcessEnd ==
    /\ pl.k = "loop"
    /\ pl.idx >= Len(pl.functions)
    /\ pl' = IF pl.pass = Len(PASSES) THEN [pl EXCEPT !.k = "done"]
             ELSE [pl EXCEPT !.k = "ready", !.pass = @ + 1]
    /\ UNCHANGED <<phase, ast, fl, uc, de, ex, es, ty>>

\* visit_function of a pass is called once more on a function that records
\* the pass; again keeps what was called
VisitAgain ==
    /\ pl.k = "done"
    /\ pl.again = <<>>
    /\ \E f \in 1..Len(pl.fns) : \E q \in 1..Len(PASSES) :
          /\ SeqHas(pl.fns[f].passes, PASSES[q])
          /\ LET after == pipe_visit_function(pl, PASSES[q], f)
             IN  pl' = [after EXCEPT !.again = <<f, PASSES[q]>>,
                                     !.k = IF after.crash # "" THEN "crashed" ELSE @]
    /\ UNCHANGED <<phase, ast, fl, uc, de, ex, es, ty>>

PipeNext == ProcessStart \/ ProcessVisit \/ ProcessEnd \/ VisitAgain

SpecPipeline == PipeSpecInit /\ [][PipeNext]_vars

\* the passes of the pipeline before the pass called name
PassesBefore(name) == {PASSES[q] : q \in 1..(PassRank(name) - 1)}

\* C16: on every function, the functions made by a pass included, a pass
\* does its work only after every pass before it in the pipeline has done
\* its work on that function.
C16_PassesRunInPipelineOrder ==
    pl.k \in {"ready", "loop", "done"} =>
        \A f \in 1..Len(pl.fns) : \A k \in 1..Len(pl.fns[f].done) :
            PassesBefore(pl.fns[f].done[k]) \subseteq {pl.fns[f].done[j] : j \in 1..(k - 1)}

\* the Function objects with the record of applied passes of each taken as
\* the set of the names recorded, which is all `PASS_NAME in fn.passes` reads
Applied(st) ==
    [f \in 1..Len(st.fns) |->
        [st.fns[f] EXCEPT !.passes = {st.fns[f].passes[k] : k \in 1..Len(st.fns[f].passes)}]]

MaxModules == 4

CoreFile == 0

InputFile == 1

Files == 1..MaxModules

\* the import graphs without a cycle: a file imports files of higher number
ImportGraphs ==
    {[f \in Files |-> {d \in Files : <<f, d>> \in E}] :
        E \in SUBSET {e \in Files \X Files : e[1] < e[2]}}

RECURSIVE Imported(_, _, _)
\* the files get_module reaches from the set todo
Imported(g, todo, seen) ==
    IF todo = {} THEN seen
    ELSE LET f == CHOOSE x \in todo : TRUE
         IN  Imported(g, (todo \cup (g[f] \ seen)) \ {f}, seen \cup {f})

\* get_module(core_file) and get_module(input_file): modules and
\* dependencies get an entry for every file reached;
\* ordered_modules[CORE_MODULE.file] is set first
OrderInit(g) ==
    LET reached == Imported(g, {InputFile}, {}) \cup {CoreFile}
    IN  [k |-> "order",
         imports |-> [f \in Files \cup {CoreFile} |-> IF f = CoreFile THEN {} ELSE g[f]],
         dependencies |-> [f \in reached |-> IF f = CoreFile THEN {} ELSE g[f]],
         remains |-> reached, ordered_modules |-> <<CoreFile>>,
         pass |-> 1, idx |-> 0, processed |-> <<>>]

OrderSpecInit ==
    /\ phase = "modules"
    /\ ast = Idle
    /\ fl = FlowInit
    /\ uc = Idle
    /\ de = Idle
    /\ ex = Idle
    /\ es = Idle
    /\ pl \in {OrderInit(g) : g \in ImportGraphs}
    /\ ty = Idle

\* the orders in which a loop may meet the members of a set
Orders(S) == {s \in [1..Cardinality(S) -> S] : \A i, j \in 1..Cardinality(S) : s[i] = s[j] => i = j}

\* a loop that writes out every file that remains
EveryRemaining(st) == st.remains

\* the files of remains the loop writes out: those without dependencies
WrittenOut(st) == {f \in st.remains : st.dependencies[f] = {}}

\* OrderedDict.__setitem__: a new key goes to the end, a key already there
\* keeps its place
SetItems(ordered, files) ==
    ordered \o SelectSeq(files, LAMBDA f : ~SeqHas(ordered, f))

\* one round of `while len(remains) > 0`
OrderRound ==
    /\ pl.k = "order"
    /\ pl.remains # {}
    /\ LET done == WrittenOut(pl)
       IN  IF done = {} THEN pl' = [pl EXCEPT !.k = "AssertionError"]
           ELSE \E met \in Orders(done) :
                    pl' = [pl EXCEPT
                             !.ordered_modules = SetItems(@, met),
                             !.remains = @ \ done,
                             !.dependencies = [f \in DOMAIN @ |->
                                 IF f \in pl.remains \ done THEN @[f] \ done ELSE @[f]]]
    /\ UNCHANGED <<phase, ast, fl, uc, de, ex, es, ty>>

\* the ordering loop is over
OrderEnd ==
    /\ pl.k = "order"
    /\ pl.remains = {}
    /\ pl' = [pl EXCEPT !.k = "passes"]
    /\ UNCHANGED <<phase, ast, fl, uc, de, ex, es, ty>>

\* `for pass_name ...: for file, module in ordered_modules.items():
\* ProcessorClass(module).process()`
ProcessModule ==
    /\ pl.k = "passes"
    /\ pl.idx < Len(pl.ordered_modules)
    /\ pl' = [pl EXCEPT !.idx = @ + 1,
                        !.processed = Append(@, <<PASSES[pl.pass], pl.ordered_modules[pl.idx + 1]>>)]
    /\ UNCHANGED <<phase, ast, fl, uc, de, ex, es, ty>>

\* the pass has been run over every module
NextPass ==
    /\ pl.k = "passes"
    /\ pl.idx >= Len(pl.ordered_modules)
    /\ pl' = IF pl.pass = Len(PASSES) THEN [pl EXCEPT !.k = "processed"]
             ELSE [pl EXCEPT !.pass = @ + 1, !.idx = 0]
    /\ UNCHANGED <<phase, ast, fl, uc, de, ex, es, ty>>

OrderNext == OrderRound \/ OrderEnd \/ ProcessModule \/ NextPass

SpecOrder == OrderSpecInit /\ [][OrderNext]_vars

\* the files loaded for the input file
Loaded == DOMAIN pl.dependencies

\* the calls of process() made for the pass of rank q
ProcessedBy(q) == SelectSeq(pl.processed, LAMBDA c : c[1] = PASSES[q])

\* C18: the order of processing holds every loaded module once, the
\* built-in module first and every module after all the modules it imports,
\* and every pass is run over the modules in that order.
C18_ModulesInImportOrder ==
    /\ pl.k # "AssertionError"
    /\ pl.k \in {"passes", "processed"} =>
          /\ pl.ordered_modules[1] = CoreFile
          /\ Len(pl.ordered_modules) = Cardinality(Loaded)
          /\ \A f \in Loaded : SeqHas(pl.ordered_modules, f)
          /\ \A i, j \in 1..Len(pl.ordered_modules) :
                pl.ordered_modules[j] \in pl.imports[pl.ordered_modules[i]] => j < i
          /\ \A q \in 1..Len(PASSES) :
                /\ q < pl.pass => Len(ProcessedBy(q)) = Len(pl.ordered_modules)
                /\ \A i \in 1..Len(ProcessedBy(q)) : ProcessedBy(q)[i][2] = pl.ordered_modules[i]
          /\ \A i \in 1..(Len(pl.processed) - 1) :
                PassRank(pl.processed[i][1]) <= PassRank(pl.processed[i + 1][1])

\* every pass was run over a chain of three imports and the built-in module
C18_Witness ==
    /\ pl.k = "processed"
    /\ Len(pl.processed) = Len(PASSES) * 4
    /\ \E f \in Loaded \ {CoreFile} : \E d \in pl.imports[f] : pl.imports[d] # {}

(***************************************************************************)
(* The type system's overload selection and compatibility (types_.py).     *)
(* A type is its name; "T" is a type variable (ast.TypeVar).  A method is  *)
(* [name, ret, args], args being the types of the arguments after self.    *)
(* The compiler directive AUTOMATIC_CASTING has its default, True.         *)
(***************************************************************************)
NumericTypes == {"i32", "i64"}

\* types.is_compatible(actual, formal, mode) on two unwrapped types given by
\* name
is_compatible(actual, formal, mode) ==
    IF actual = formal THEN TRUE
    ELSE IF (actual = "T" \/ formal = "T") /\ mode = "args" THEN TRUE
    ELSE actual \in NumericTypes /\ formal \in NumericTypes

\* the overloads a class or a trait has under the name, <<>> when it has
\* none; methods is the dict, a sequence of [name, overloads] in its order
MethodsNamed(t, name) ==
    LET at == {k \in 1..Len(t.methods) : t.methods[k].name = name}
    IN  IF at = {} THEN <<>> ELSE t.methods[CHOOSE k \in at : TRUE].overloads

\* the set of the tuples of tail-argument types of the overloads
ArgsTypes(overloads) == {overloads[k].args : k \in 1..Len(overloads)}

\* is_compatible, the branch of a Trait formal: the loop over
\* formal.methods.items() returns in its first round
trait_compatible(actual, formal, mode) ==
    IF formal.methods = <<>> THEN FALSE
    ELSE LET name == formal.methods[1].name
             formal_methods == formal.methods[1].overloads
             actual_methods == MethodsNamed(actual, name)
         IN  IF actual_methods = <<>> THEN FALSE
             ELSE IF ~is_compatible(actual_methods[1].ret, formal_methods[1].ret, mode) THEN FALSE
             ELSE IF ArgsTypes(formal_methods) # ArgsTypes(actual_methods) THEN FALSE
             ELSE TRUE

\* types.is_compatible(actual, formal, mode) on a class and a class or a
\* trait
class_is_compatible(actual, formal, mode) ==
    IF actual = formal THEN TRUE
    ELSE IF formal.trait THEN trait_compatible(actual, formal, mode)
    ELSE FALSE

\* the score select_method gives the formal types for the actual types
RECURSIVE method_score(_, _, _)
method_score(actual_types, formal_types, i) ==
    IF i > Len(actual_types) THEN 0
    ELSE IF ~is_compatible(actual_types[i], formal_types[i], "args") THEN 0 - 1000
    ELSE (IF actual_types[i] = formal_types[i] THEN 10 ELSE 1)
         + method_score(actual_types, formal_types, i + 1)

\* list.sort(key=score) is stable and ascending: the rank in scored of the
\* entry that comes first
FirstSorted(scored) ==
    CHOOSE k \in 1..Len(scored) :
        \A j \in 1..Len(scored) :
            scored[k].score < scored[j].score \/ (scored[k].score = scored[j].score /\ k <= j)

RECURSIVE select_loop(_, _, _, _, _)
\* the loop of select_method over the options; the result is the rank of
\* the method chosen in methods, None when util.Error is raised
select_loop(methods, method_name, actual_types, k, scored) ==
    IF k > Len(methods)
    THEN IF scored = <<>> THEN None ELSE scored[FirstSorted(scored)].method
    ELSE IF methods[k].name # method_name
    THEN select_loop(methods, method_name, actual_types, k + 1, scored)
    ELSE IF Len(methods[k].args) # Len(actual_types)
    THEN select_loop(methods, method_name, actual_types, k + 1, scored)
    ELSE IF methods[k].args = <<>> THEN k
    ELSE LET score == method_score(actual_types, methods[k].args, 1)
         IN  select_loop(methods, method_name, actual_types, k + 1,
                         IF score > 0 THEN Append(scored, [method |-> k, score |-> score])
                         ELSE scored)

\* types.select_method(module, node, cls, method_name, methods, positional,
\* named) with named empty
select_method(method_name, methods, actual_types) ==
    IF \A k \in 1..Len(methods) : methods[k].name # method_name THEN None
    ELSE select_loop(methods, method_name, actual_types, 1, <<>>)

(***************************************************************************)
(* Calls of select_method: the methods of a class, up to MaxMethods, with  *)
(* up to MaxArity arguments after self, and the types of a call's          *)
(* arguments.                                                              *)
(***************************************************************************)
MaxMethods == 2

MaxArity == 2

FormalTypes == {"i32", "i64", "str", "T"}

ActualTypes == {"i32", "i64", "str"}

TypeLists(types, n) == UNION {[1..a -> types] : a \in 0..n}

SelectMethods ==
    UNION {[1..n -> [name : {"m", "o"}, ret : {"i32"}, args : TypeLists(FormalTypes, MaxArity)]] :
              n \in 1..MaxMethods}

SelectSpecInit ==
    /\ phase = "types"
    /\ ast = Idle
    /\ fl = FlowInit
    /\ uc = Idle
    /\ de = Idle
    /\ ex = Idle
    /\ es = Idle
    /\ pl = Idle
    /\ ty \in [k : {"call"}, methods : SelectMethods, actual_types : TypeLists(ActualTypes, MaxArity)]

\* cls.select(module, node, "m", positional, named)
Select ==
    /\ ty.k = "call"
    /\ ty' = [ty EXCEPT !.k = "selected"] @@
             [method |-> select_method("m", ty.methods, ty.actual_types)]
    /\ UNCHANGED <<phase, ast, fl, uc, de, ex, es, pl>>

SelectNext == Select

SpecSelect == SelectSpecInit /\ [][SelectNext]_vars

\* the score of the claim: +10 for a parameter of the same type, +1 for a
\* compatible parameter of another type, nothing positive when a parameter
\* is not compatible
OverloadScore(m) == method_score(ty.actual_types, m.args, 1)

\* the overloads of m whose arity is the call's
Matching == {k \in 1..Len(ty.methods) :
                ty.methods[k].name = "m" /\ Len(ty.methods[k].args) = Len(ty.actual_types)}

\* C19: among the overloads of the method whose arity matches the call,
\* select returns the one with the highest positive score, the earliest
\* declared of those that share it.
C19_HighestScoreEarliestDeclared ==
    (ty.k = "selected" /\ \E k \in Matching : OverloadScore(ty.methods[k]) > 0) =>
        /\ ty.method \in Matching
        /\ \A k \in Matching :
              \/ OverloadScore(ty.methods[k]) < OverloadScore(ty.methods[ty.method])
              \/ (OverloadScore(ty.methods[k]) = OverloadScore(ty.methods[ty.method]) /\ ty.method <= k)

(***************************************************************************)
(* Calls of is_compatible with a class as the actual and a trait as the    *)
(* formal type: each has the methods m and n or some of them, each method  *)
(* up to MaxOverloads overloads.                                           *)
(***************************************************************************)
MaxOverloads == 2

TraitOverloads ==
    UNION {[1..n -> [ret : NumericTypes, args : {<<>>, <<"i32">>}]] : n \in 1..MaxOverloads}

\* the dicts `methods` with the names of the sequence names as keys
MethodDicts(names) ==
    {[k \in 1..Len(names) |-> [name |-> names[k], overloads |-> o[k]]] :
        o \in [1..Len(names) -> TraitOverloads]}

TraitTypes ==
    {[trait |-> TRUE, methods |-> d] :
        d \in UNION {MethodDicts(names) : names \in {<<>>, <<"m">>, <<"m", "n">>}}}

ClassTypes ==
    {[trait |-> FALSE, methods |-> d] :
        d \in UNION {MethodDicts(names) : names \in {<<>>, <<"m">>, <<"n">>, <<"m", "n">>}}}

CompatibleSpecInit ==
    /\ phase = "types"
    /\ ast = Idle
    /\ fl = FlowInit
    /\ uc = Idle
    /\ de = Idle
    /\ ex = Idle
    /\ es = Idle
    /\ pl = Idle
    /\ ty \in [k : {"query"}, actual : ClassTypes, formal : TraitTypes, mode : {"default", "args"}]

\* types.is_compatible(actual, formal, mode)
Compatible ==
    /\ ty.k = "query"
    /\ ty' = [ty EXCEPT !.k = "answered"] @@
             [compatible |-> class_is_compatible(ty.actual, ty.formal, ty.mode)]
    /\ UNCHANGED <<phase, ast, fl, uc, de, ex, es, pl>>

CompatibleNext == Compatible

SpecCompatible == CompatibleSpecInit /\ [][CompatibleNext]_vars

\* the type has a method of that name with the return type and the
\* tail-argument types of the trait's method
Implements(actual, name, method) ==
    \E k \in 1..Len(MethodsNamed(actual, name)) :
        /\ MethodsNamed(actual, name)[k].ret = method.ret
        /\ MethodsNamed(actual, name)[k].args = method.args

\* C20: a type is compatible with a trait formal only if, for every method
\* of the trait, the type has a method of that name whose return type and
\* tail-argument types are those of the trait's method.
C20_CompatibleOnlyIfEveryMethodMatches ==
    (ty.k = "answered" /\ ty.compatible) =>
        \A i \in 1..Len(ty.formal.methods) :
            \A j \in 1..Len(ty.formal.methods[i].overloads) :
                Implements(ty.actual, ty.formal.methods[i].name, ty.formal.methods[i].overloads[j])

(***************************************************************************)
(* types.is_compatible on type objects.  A type is a record:               *)
(*   [k |-> "basic", name]      a type of BASIC (check_basic_type)         *)
(*   [k |-> "class", name]      a class without type variables             *)
(*   [k |-> "derived", template, elements]                                 *)
(*                              a type get_derived_type made of a template *)
(*   [k |-> "wrapper", over, is_reference, is_heap_owner, is_mutable]      *)
(*   [k |-> "typevar", name]    ast.TypeVar                                *)
(*   [k |-> "function", ret, args]   Function, args a list                 *)
(*   [k |-> "variadic"]         VariadicArgs                               *)
(*   [k |-> "list", items]      a Python list of types                     *)
(* ReprId.__eq__ compares repr(), which is built of the names of the       *)
(* parts; a name or a repr is the sequence of the pieces of the string.    *)
(* Trait formals are class_is_compatible above.                            *)
(***************************************************************************)
Basic(name) == [k |-> "basic", name |-> name]

ClassType(name) == [k |-> "class", name |-> name]

Derived(template, elements) == [k |-> "derived", template |-> template, elements |-> elements]

Wrapper(over, is_mutable, is_heap_owner, is_reference) ==
    [k |-> "wrapper", over |-> over, is_mutable |-> is_mutable,
     is_heap_owner |-> is_heap_owner, is_reference |-> is_reference]

TypeVar(name) == [k |-> "typevar", name |-> name]

FunctionType(ret, args) == [k |-> "function", ret |-> ret, args |-> args]

VariadicArgs == [k |-> "variadic"]

TypeList(items) == [k |-> "list", items |-> items]

\* BASIC: the integer and the floating types and their num_bits, 0 for None
INTEGERS == {"anyint", "i32", "i64"}

FLOATS == {"anyfloat", "f32"}

Bits(name) == CASE name \in {"i32", "f32"} -> 32
                [] name = "i64" -> 64
                [] OTHER -> 0

RECURSIVE TypeName(_)
RECURSIVE JoinNames(_, _)
\* the names of the types, joined with ", "
JoinNames(types, i) ==
    IF i > Len(types) THEN <<>>
    ELSE (IF i > 1 THEN <<", ">> ELSE <<>>) \o TypeName(types[i]) \o JoinNames(types, i + 1)

\* typ.name
TypeName(t) ==
    CASE t.k \in {"basic", "class", "typevar"} -> <<t.name>>
      [] t.k = "derived" -> <<t.template, "<">> \o JoinNames(t.elements, 1) \o <<">">>
      [] t.k = "wrapper" ->
            (IF t.is_mutable THEN <<"~">> ELSE <<>>)
            \o (IF t.is_reference THEN <<"&">> ELSE <<>>) \o TypeName(t.over)
      [] t.k = "function" ->
            <<"function(">> \o JoinNames(t.args.items, 1) \o <<") -> ">> \o TypeName(t.ret)
      [] t.k = "variadic" -> <<"VariadicArgs">>

RECURSIVE TypeRepr(_)
RECURSIVE JoinReprs(_, _)
JoinReprs(types, i) ==
    IF i > Len(types) THEN <<>>
    ELSE (IF i > 1 THEN <<", ">> ELSE <<>>) \o TypeRepr(types[i]) \o JoinReprs(types, i + 1)

\* repr(typ): Base.__repr__, Wrapper.__repr__, Function.__repr__; a TypeVar
\* has the repr of object, which no other object has
TypeRepr(t) ==
    CASE t.k \in {"basic", "class", "derived", "variadic"} -> <<"<type: ">> \o TypeName(t) \o <<">">>
      [] t.k = "wrapper" ->
            <<"<type: ", IF t.is_reference THEN "ref_ptr"
                         ELSE IF t.is_heap_owner THEN "owner_ptr" ELSE "ptr", "<">>
            \o TypeName(t.over) \o <<">>">>
      [] t.k = "function" ->
            <<"<fn ">> \o TypeRepr(t.ret) \o <<" <- [">> \o JoinReprs(t.args.items, 1) \o <<"]>">>
      [] t.k = "typevar" -> <<"<ast.TypeVar object ", t.name, ">">>

\* actual == formal: ReprId.__eq__, list.__eq__
RECURSIVE TypeEq(_, _)
TypeEq(a, b) ==
    IF a.k = "list" /\ b.k = "list"
    THEN /\ Len(a.items) = Len(b.items)
         /\ \A i \in 1..Len(a.items) : TypeEq(a.items[i], b.items[i])
    ELSE IF a.k = "list" \/ b.k = "list" THEN FALSE
    ELSE TypeRepr(a) = TypeRepr(b)

is_wrapped(typ) == typ.k = "wrapper"

is_reference(typ) == is_wrapped(typ) /\ typ.is_reference

RECURSIVE unwrap(_)
unwrap(typ) == IF is_wrapped(typ) THEN unwrap(typ.over) ELSE typ

\* actual in numeric_types
IsNumeric(typ) == typ.k = "basic" /\ typ.name \in INTEGERS \cup FLOATS

\* zip(actual, formal): as many pairs as the shorter has
Zip(a, b) == [i \in 1..(IF Len(a) < Len(b) THEN Len(a) ELSE Len(b)) |-> <<a[i], b[i]>>]

RECURSIVE IsCompatible(_, _, _, _)
\* types.is_compatible(actual, formal, mode, accept_bigger_type) with
\* util.AUTOMATIC_CASTING True; the recursive calls do not pass
\* accept_bigger_type, so it is True in them
IsCompatible(actual, formal, mode, accept_bigger_type) ==
    IF actual.k = "derived" /\ formal.k = "derived"
    THEN \A i \in DOMAIN Zip(actual.elements, formal.elements) :
            IsCompatible(actual.elements[i], formal.elements[i], mode, TRUE)
    ELSE IF actual.k = "list" /\ formal.k = "list"
    THEN IF Len(actual.items) # Len(formal.items) THEN FALSE
         ELSE IF formal.items # <<>> /\ formal.items[Len(formal.items)].k = "variadic"
         THEN \A i \in 1..(Len(formal.items) - 1) :
                 IsCompatible(actual.items[i], formal.items[i], mode, TRUE)
         ELSE \A i \in 1..Len(formal.items) :
                 IsCompatible(actual.items[i], formal.items[i], mode, TRUE)
    ELSE IF TypeEq(actual, formal) THEN TRUE
    ELSE IF actual.k = "typevar" /\ formal.k = "typevar" /\ actual.name = formal.name THEN TRUE
    ELSE IF (actual.k = "typevar" \/ formal.k = "typevar") /\ mode = "args" THEN TRUE
    ELSE IF is_reference(actual) /\ ~is_reference(formal) THEN FALSE
    ELSE IF actual.k = "function" /\ formal.k = "function"
    THEN /\ IsCompatible(actual.ret, formal.ret, mode, TRUE)
         /\ IsCompatible(actual.args, formal.args, mode, TRUE)
    ELSE IF TypeName(actual) = <<"anytype">> THEN TRUE
    ELSE IF IsNumeric(actual) /\ IsNumeric(formal)
    THEN IF actual.name \in {"anyint", "anyfloat"} \/ formal.name \in {"anyint", "anyfloat"}
         THEN TRUE
         ELSE IF ~accept_bigger_type THEN Bits(actual.name) <= Bits(formal.name)
         ELSE TRUE
    ELSE IF is_wrapped(actual) /\ is_wrapped(formal)
    THEN IsCompatible(unwrap(actual), unwrap(formal), mode, TRUE)
    ELSE IF (is_wrapped(actual) \/ is_wrapped(formal)) /\ mode = "args"
    THEN IsCompatible(unwrap(actual), unwrap(formal), mode, TRUE)
    ELSE FALSE

(***************************************************************************)
(* Calls of is_compatible on two types: scalars, types derived of the      *)
(* templates list, set and tuple with up to MaxElements elements, function *)
(* types, and these behind an owner pointer, a pointer or a reference.     *)
(***************************************************************************)
MaxElements == 2

ScalarTypes ==
    {Basic(n) : n \in {"anytype", "anyint", "anyfloat", "bool", "i32", "i64", "f32"}}
    \cup {ClassType("C"), TypeVar("T")}

ElementTypes == {Basic("bool"), Basic("i32"), Basic("i64")}

DerivedTypes(max) ==
    {Derived(t, <<e>>) : t \in {"list", "set"}, e \in ElementTypes}
    \cup UNION {{Derived("tuple", e) : e \in [1..n -> ElementTypes]} : n \in 1..max}

FunctionTypes ==
    {FunctionType(r, TypeList(a)) :
        r \in {Basic("i32"), Basic("i64")},
        a \in {<<>>, <<Basic("i32")>>, <<Basic("i64")>>}}

UnwrappedTypes(max) == ScalarTypes \cup DerivedTypes(max) \cup FunctionTypes

\* owner_ptr, ptr, &T and ~&T
WrapperKinds == {<<FALSE, TRUE, FALSE>>, <<FALSE, FALSE, FALSE>>,
                 <<FALSE, FALSE, TRUE>>, <<TRUE, FALSE, TRUE>>}

WrappedTypes(max) ==
    {Wrapper(o, w[1], w[2], w[3]) : o \in UnwrappedTypes(max) \ {TypeVar("T")}, w \in WrapperKinds}

AllTypes(max) == UnwrappedTypes(max) \cup WrappedTypes(max)

MODES == {"default", "args", "return"}

TypesSpecInit ==
    /\ phase = "is_compatible"
    /\ ast = Idle
    /\ fl = FlowInit
    /\ uc = Idle
    /\ de = Idle
    /\ ex = Idle
    /\ es = Idle
    /\ pl = Idle
    /\ \E actual \in AllTypes(MaxElements), formal \in AllTypes(MaxElements),
          mode \in MODES, accept_bigger_type \in BOOLEAN :
          ty = [k |-> "types", actual |-> actual, formal |-> formal, mode |-> mode,
                accept_bigger_type |-> accept_bigger_type]

\* types.is_compatible(actual, formal, mode, accept_bigger_type)
CheckTypes ==
    /\ ty.k = "types"
    /\ ty' = [k |-> "checked", actual |-> ty.actual, formal |-> ty.formal, mode |-> ty.mode,
              accept_bigger_type |-> ty.accept_bigger_type,
              compatible |-> IsCompatible(ty.actual, ty.formal, ty.mode, ty.accept_bigger_type)]
    /\ UNCHANGED <<phase, ast, fl, uc, de, ex, es, pl>>

TypesNext == CheckTypes

SpecTypes == TypesSpecInit /\ [][TypesNext]_vars

\* C21: is_compatible accepts no pair of which exactly one is a reference,
\* in any mode.
C21_ReferenceOnlyWithReference ==
    (ty.k = "checked" /\ ty.compatible) => (is_reference(ty.actual) <=> is_reference(ty.formal))

\* C30: two derived types with element lists are compatible only if they
\* derive from the same template and have as many elements as each other,
\* compatible pair by pair.
C30_DerivedTypesElementwise ==
    (ty.k = "checked" /\ ty.compatible /\ ty.actual.k = "derived" /\ ty.formal.k = "derived") =>
        /\ ty.actual.template = ty.formal.template
        /\ Len(ty.actual.elements) = Len(ty.formal.elements)
        /\ \A i \in 1..Len(ty.actual.elements) :
              IsCompatible(ty.actual.elements[i], ty.formal.elements[i], ty.mode, TRUE)

(***************************************************************************)
(* Typer.visit_call, the check of the arguments: the types of the actual   *)
(* arguments against over["args"] of the function's type.                  *)
(***************************************************************************)
MaxArgs == 2

ArgTypes == {Basic(n) : n \in {"anyint", "anyfloat", "bool", "i32", "i64", "f32"}}
            \cup {Wrapper(ClassType("C"), FALSE, TRUE, FALSE)}

CallSpecInit ==
    /\ phase = "visit_call"
    /\ ast = Idle
    /\ fl = FlowInit
    /\ uc = Idle
    /\ de = Idle
    /\ ex = Idle
    /\ es = Idle
    /\ pl = Idle
    /\ \E n \in 0..MaxArgs, variadic \in BOOLEAN :
          \E actuals \in [1..n -> ArgTypes],
             formals \in UNION {[1..m -> ArgTypes] : m \in (IF variadic THEN 0..(n - 1) ELSE {n})} :
             ty = [k |-> "call", actuals |-> actuals,
                   formals |-> IF variadic THEN Append(formals, VariadicArgs) ELSE formals]

\* `if not types.is_compatible(actuals, formals, "args",
\* accept_bigger_type=False): raise util.Error`
CheckCall ==
    /\ ty.k = "call"
    /\ ty' = [k |-> IF IsCompatible(TypeList(ty.actuals), TypeList(ty.formals), "args", FALSE)
                    THEN "typed" ELSE "Error",
              actuals |-> ty.actuals, formals |-> ty.formals]
    /\ UNCHANGED <<phase, ast, fl, uc, de, ex, es, pl>>

CallNext == CheckCall

SpecCall == CallSpecInit /\ [][CallNext]_vars

\* the argument fits the formal by its width
FitsBits(actual, formal) ==
    \/ Bits(actual.name) <= Bits(formal.name)
    \/ actual.name \in {"anyint", "anyfloat"}
    \/ formal.name \in {"anyint", "anyfloat"}

\* C22: a call the Typer accepts passes, at every position, a numeric
\* argument to a numeric formal only if the argument has at most the bits
\* of the formal or one of the two is anyint or anyfloat.
C22_CallArgumentsFitTheirFormals ==
    ty.k = "typed" =>
        \A i \in 1..Len(ty.actuals) :
            (i <= Len(ty.formals) /\ IsNumeric(ty.actuals[i]) /\ IsNumeric(ty.formals[i]))
                => FitsBits(ty.actuals[i], ty.formals[i])

(***************************************************************************)
(* The table of virtual methods of a trait.  create_type_or_trait numbers  *)
(* the methods of the trait, CodeGenerator.declare_trait lays out the      *)
(* struct <trait>.virtual_methods, allocate_trait_wrap fills it when a     *)
(* value is cast to the trait and visit_call loads of it at a virtual      *)
(* call.  A method is its name; the slots are numbered from 0.  ty holds   *)
(*   decl     the names of the trait's methods in the order declared       *)
(*   impl     the names of the methods of the type of the value            *)
(*   methods  trait.methods: each [name, idx], in the order of the dict    *)
(*   layout   the elements of the struct: for each slot, the method whose  *)
(*            function type the slot has                                   *)
(*   vtable   for each slot, the method of the value's type stored there,  *)
(*            "" when nothing was stored                                   *)
(*   fn, slot the method of a virtual call and the slot it loads           *)
(***************************************************************************)
MaxTraitMethods == 3

\* the names a method may have, in the order sorted() gives them
MethodNameOrder == <<"a", "b", "c", "d">>

MethodNames == {MethodNameOrder[i] : i \in 1..MaxTraitMethods}

\* the declarations of a trait: no name twice (create_type_or_trait raises
\* util.Error for a second method of the same name)
TraitDecls ==
    UNION {{s \in [1..n -> MethodNames] : \A i, j \in 1..n : s[i] = s[j] => i = j} :
              n \in 1..MaxTraitMethods}

VtableSpecInit ==
    /\ phase = "vtable"
    /\ ast = Idle
    /\ fl = FlowInit
    /\ uc = Idle
    /\ de = Idle
    /\ ex = Idle
    /\ es = Idle
    /\ pl = Idle
    /\ \E decl \in TraitDecls, impl \in SUBSET MethodNames :
          ty = [k |-> "trait", decl |-> decl, impl |-> impl]

\* `for i, method in enumerate(node.methods): method.idx = i;
\* typ.methods.setdefault(method.name, []).append(method)`
CreateTrait ==
    /\ ty.k = "trait"
    /\ ty' = [k |-> "created", decl |-> ty.decl, impl |-> ty.impl,
              methods |-> [i \in 1..Len(ty.decl) |-> [name |-> ty.decl[i], idx |-> i - 1]]]
    /\ UNCHANGED <<phase, ast, fl, uc, de, ex, es, pl>>

\* the names of the dict in the order they were declared
DeclaredOrder(methods) == [i \in 1..Len(methods) |-> methods[i].name]

\* sorted(typ.methods.items()): the names of the dict in the order of
\* their spelling
SortedItems(methods) ==
    SelectSeq(MethodNameOrder, LAMBDA n : \E i \in 1..Len(methods) : methods[i].name = n)

\* declare_trait: `for name, methods in sorted(typ.methods.items()): ...
\* method_types.append(fn_type.ir)`, then trait_methods_type.elements =
\* method_types
DeclareTrait ==
    /\ ty.k = "created"
    /\ ty' = [k |-> "declared", decl |-> ty.decl, impl |-> ty.impl, methods |-> ty.methods,
              layout |-> SortedItems(ty.methods)]
    /\ UNCHANGED <<phase, ast, fl, uc, de, ex, es, pl>>

RECURSIVE StoreMethods(_, _, _, _)
\* the loop of allocate_trait_wrap over trait_type.methods.items(): the
\* method of the value's type of the same name is stored at trait_fn.idx;
\* util.Error when the value's type has no such method
StoreMethods(methods, impl, i, vtable) ==
    IF i > Len(methods) THEN vtable
    ELSE IF methods[i].name \notin impl THEN <<"Error">>
    ELSE StoreMethods(methods, impl, i + 1, [vtable EXCEPT ![methods[i].idx] = methods[i].name])

\* cast_to_trait of a value of the type with the methods impl
AllocateTraitWrap ==
    /\ ty.k = "declared"
    /\ LET vtable == StoreMethods(ty.methods, ty.impl, 1, [s \in 0..(Len(ty.methods) - 1) |-> ""])
       IN  ty' = IF vtable = <<"Error">>
                 THEN [k |-> "Error", decl |-> ty.decl, impl |-> ty.impl]
                 ELSE [k |-> "wrapped", decl |-> ty.decl, impl |-> ty.impl,
                       methods |-> ty.methods, layout |-> ty.layout, vtable |-> vtable]
    /\ UNCHANGED <<phase, ast, fl, uc, de, ex, es, pl>>

\* visit_call with node.virtual: `fn_addr = gep(virtual_methods, [0,
\* node.fn.idx])`, node.fn being a method of the trait
VirtualCall ==
    /\ ty.k = "wrapped"
    /\ \E i \in 1..Len(ty.methods) :
          ty' = [k |-> "called", decl |-> ty.decl, impl |-> ty.impl, methods |-> ty.methods,
                 layout |-> ty.layout, vtable |-> ty.vtable,
                 fn |-> ty.methods[i].name, slot |-> ty.methods[i].idx]
    /\ UNCHANGED <<phase, ast, fl, uc, de, ex, es, pl>>

VtableNext == CreateTrait \/ DeclareTrait \/ AllocateTraitWrap \/ VirtualCall

SpecVtable == VtableSpecInit /\ [][VtableNext]_vars

\* C23: for the methods m0..mk of a trait in the order declared, slot i of
\* the struct has the type of mi, slot i of the implementer's table holds
\* the implementer's method of the name of mi, and a virtual call of mi
\* loads slot i.
C23_VtableSlotsAgree ==
    /\ ty.k \in {"wrapped", "called"} =>
          \A i \in 1..Len(ty.decl) :
              /\ ty.layout[i] = ty.decl[i]
              /\ ty.vtable[i - 1] = ty.decl[i]
    /\ ty.k = "called" => ty.decl[ty.slot + 1] = ty.fn

(***************************************************************************)
(* Constant folding by the ExpressionsEvaluator (ast_passes/expressions).  *)
(* An expression node is a record with the fields of its class; literal    *)
(* is <<v>> when the node has the attribute literal with the value v and   *)
(* <<>> when it has no such attribute (only the literal classes set it in  *)
(* their constructor).  The literals are integers.                         *)
(***************************************************************************)
IntLiteral(value) == [e |-> "Int", is_literal |-> TRUE, literal |-> <<value>>]

Symbol(name) == [e |-> "Symbol", name |-> name, is_literal |-> FALSE, literal |-> <<>>]

UnaryOp(op, value) ==
    [e |-> "unary", op |-> op, value |-> value, is_literal |-> FALSE, literal |-> <<>>]

BinaryOp(op, left, right) ==
    [e |-> "binary", op |-> op, left |-> left, right |-> right,
     is_literal |-> FALSE, literal |-> <<>>]

\* Neg and BwNot
UNARY_OPS == {"-", "~"}

\* Add, Sub, Mul, FloorDiv, Mod and BwShiftLeft
BINARY_OPS == {"+", "-", "*", "//", "%", "<<"}

RECURSIVE Pow2(_)
Pow2(n) == IF n = 0 THEN 1 ELSE 2 * Pow2(n - 1)

\* Python's a // b for b > 0
FloorDivPos(a, b) == IF a >= 0 THEN a \div b ELSE 0 - ((b - a - 1) \div b)

\* Python's a // b for b # 0
PyFloorDiv(a, b) == IF b > 0 THEN FloorDivPos(a, b) ELSE FloorDivPos(0 - a, 0 - b)

\* eval("{op} {value}"): <<v>> for the value v
EvalUnary(op, value) ==
    CASE op = "-" -> <<0 - value>>
      [] op = "~" -> <<0 - value - 1>>

\* eval("{left} {op} {right}"): <<v>> for the value v, <<>> when eval
\* raises (ZeroDivisionError, ValueError for a negative shift count)
EvalBinary(op, left, right) ==
    CASE op = "+" -> <<left + right>>
      [] op = "-" -> <<left - right>>
      [] op = "*" -> <<left * right>>
      [] op = "//" -> IF right = 0 THEN <<>> ELSE <<PyFloorDiv(left, right)>>
      [] op = "%" -> IF right = 0 THEN <<>> ELSE <<left - right * PyFloorDiv(left, right)>>
      [] op = "<<" -> IF right < 0 THEN <<>> ELSE <<left * Pow2(right)>>

\* the try statement of unary_op and binary_op on the value the expression
\* in the try gives, <<>> when it raises: `except: node.is_literal = False`
\* and then `finally: node.is_literal = True`
TryFold(node, value) ==
    LET tried == IF value # <<>> THEN [node EXCEPT !.literal = value]
                 ELSE [node EXCEPT !.is_literal = FALSE]
    IN  [tried EXCEPT !.is_literal = TRUE]

\* reading operand.literal raises AttributeError when the operand has no
\* attribute literal
RECURSIVE ExprVisit(_)
\* ExpressionsEvaluator.visit on an expression
ExprVisit(node) ==
    CASE node.e = "unary" ->
            LET value == ExprVisit(node.value)
                n == [node EXCEPT !.value = value]
            IN  IF value.is_literal
                THEN TryFold(n, IF value.literal = <<>> THEN <<>>
                                ELSE EvalUnary(node.op, value.literal[1]))
                ELSE n
      [] node.e = "binary" ->
            LET left == ExprVisit(node.left)
                right == ExprVisit(node.right)
                n == [node EXCEPT !.left = left, !.right = right]
            IN  IF left.is_literal /\ right.is_literal
                THEN TryFold(n, IF left.literal = <<>> \/ right.literal = <<>> THEN <<>>
                                ELSE EvalBinary(node.op, left.literal[1], right.literal[1]))
                ELSE n
      [] OTHER -> node

(***************************************************************************)
(* The expressions of up to MaxExprDepth operators above one another over  *)
(* the literals 0, 1, 2 and a variable.                                    *)
(***************************************************************************)
MaxExprDepth == 2

RECURSIVE FoldExprs(_)
FoldExprs(depth) ==
    IF depth = 0 THEN {IntLiteral(0), IntLiteral(1), IntLiteral(2), Symbol("x")}
    ELSE LET sub == FoldExprs(depth - 1)
         IN  sub \cup {UnaryOp(op, v) : op \in UNARY_OPS, v \in sub}
                 \cup {BinaryOp(op, l, r) : op \in BINARY_OPS, l \in sub, r \in sub}

FoldSpecInit ==
    /\ phase = "parsed"
    /\ ast \in {[value |-> v] : v \in FoldExprs(MaxExprDepth)}
    /\ fl = FlowInit
    /\ uc = Idle
    /\ de = Idle
    /\ ex = Idle
    /\ es = Idle
    /\ pl = Idle
    /\ ty = Idle

\* the ExpressionsEvaluator visits the expression of a statement
FoldVisit ==
    /\ phase = "parsed"
    /\ phase' = "expressions"
    /\ ast' = [value |-> ExprVisit(ast.value)]
    /\ UNCHANGED <<fl, uc, de, ex, es, pl, ty>>

FoldNext == FoldVisit

SpecFold == FoldSpecInit /\ [][FoldNext]_vars

RECURSIVE OpNodes(_)
\* the operation nodes of an expression
OpNodes(node) ==
    CASE node.e = "unary" -> {node} \cup OpNodes(node.value)
      [] node.e = "binary" -> {node} \cup OpNodes(node.left) \cup OpNodes(node.right)
      [] OTHER -> {}

\* the operands of the node are literal and evaluating the operation on
\* them raises an exception
FoldRaises(node) ==
    CASE node.e = "unary" -> node.value.is_literal /\ node.value.literal = <<>>
      [] node.e = "binary" ->
            /\ node.left.is_literal /\ node.right.is_literal
            /\ \/ node.left.literal = <<>>
               \/ node.right.literal = <<>>
               \/ EvalBinary(node.op, node.left.literal[1], node.right.literal[1]) = <<>>

\* C24: an operation over literal operands whose evaluation raises an
\* exception is left non-literal by the pass: is_literal is false and the
\* node has no folded value.
C24_FailedFoldLeavesNonLiteral ==
    phase = "expressions" =>
        \A n \in OpNodes(ast.value) : FoldRaises(n) => (~n.is_literal /\ n.literal = <<>>)

(***************************************************************************)
(* The Destructor on functions that move a heap value from one binding to  *)
(* another.  A function has the argument c (a bool) and may declare x and  *)
(* y (owners of a heap value), with or without a first value; it may give  *)
(* x a new value, move x's value to y and read x.  Nothing escapes: no     *)
(* return has a value and no call takes a value over.                      *)
(***************************************************************************)
MoveArgs == <<Argument("c", 1)>>

MoveTypes == [n \in {"x", "y", "c"} |-> IF n = "c" THEN PlainType ELSE OwnerType]

\* the statements of one row that declare a variable
MoveSimple(row) ==
    {Var(SymAt("x", row, 1),
         Assign(SymAt("x", row, 1), At(Call(<<>>, <<>>), 10 * row + 2))),           \* var x = foo()
     Var(SymAt("x", row, 1), NoStmt),                                               \* var x
     Var(SymAt("y", row, 1),
         Assign(SymAt("y", row, 1), At(Call(<<>>, <<>>), 10 * row + 2))),           \* var y = foo()
     Return(NoExpr)}                                                                \* return

\* the statements of one row that name variables in scope
MoveScoped(row, scope) ==
    (IF "x" \in scope
     THEN {Assign(SymAt("x", row, 1), At(Call(<<>>, <<>>), 10 * row + 2)),          \* x = foo()
           ExprStmt(At(Call(<<SymAt("x", row, 2)>>, <<FALSE>>), 10 * row + 1))}     \* foo(x), a read
     ELSE {})
    \cup (IF {"x", "y"} \subseteq scope
          THEN {Assign(SymAt("y", row, 1), SymAt("x", row, 2))}                     \* y = x
          ELSE {})

RECURSIVE MoveStmts(_, _, _)
RECURSIVE MoveSuites(_, _, _)
\* the statements of exactly w rows that start at row
MoveStmts(w, row, scope) ==
    IF w = 1 THEN {s \in MoveSimple(row) : Declared(s) \cap scope = {}}
                  \cup MoveScoped(row, scope)
    ELSE {While(SymAt("c", row, 1), t) : t \in MoveSuites(w - 1, row + 1, scope)}
         \cup {If(<<Part(SymAt("c", row, 1), t)>>) : t \in MoveSuites(w - 1, row + 1, scope)}

\* the suites of exactly w rows that start at row; nothing follows a return
MoveSuites(w, row, scope) ==
    IF w = 0 THEN {<<>>}
    ELSE UNION {UNION {{<<t>> \o rest : rest \in MoveSuites(w - i, row + i,
                                                            scope \cup Declared(t))} :
                          t \in {u \in MoveStmts(i, row, scope) :
                                    u.k \in JUMPER => i = w}} : i \in 1..w}

MoveWeight == 4

MovePrograms(weight) == UNION {MoveSuites(w, 1, {}) : w \in 1..weight}

(***************************************************************************)
(* A run of a function after the Destructor.  ex holds the walk's position *)
(* and                                                                     *)
(*   made     the number of heap values the run has created                *)
(*   holds    for each owner, the heap value its binding points to (0      *)
(*            before the first assignment)                                 *)
(*   moved    the owners whose value was moved to another binding and not  *)
(*            replaced                                                     *)
(*   freed    the heap values a Del has released                           *)
(*   deleted  the owners a Del has released and no assignment has given a  *)
(*            value since                                                  *)
(*   twice    a heap value a Del released after another Del had            *)
(*   delmoved a moved-from owner a Del named                               *)
(*   dangling an owner a step read after its Del                           *)
(* A run creates at most MaxValues heap values.                            *)
(***************************************************************************)
MaxValues == 3

MoveSpecInit ==
    /\ phase = "implicits"
    /\ ast \in {[suite |-> t, args |-> MoveArgs, types |-> MoveTypes] : t \in MovePrograms(MoveWeight)}
    /\ fl = FlowInit
    /\ uc = Idle
    /\ de = Idle
    /\ ex = Idle
    /\ es = Idle
    /\ pl = Idle
    /\ ty = Idle

OwnerNames == {n \in DOMAIN ast.types : ast.types[n].own}

\* the heap value an assignment creates: the result of a call
CreatesValue(n) == n.k = "Assign" /\ n.left.e = "sym" /\ n.right.e = "call" /\ TypeOf(n.left).own

\* the variables a step reads; a Del names its variable and reads nothing
ReadBy(n) == IF n.k = "Del" THEN {} ELSE ReadNames(n)

\* what the bindings point to after step n: a call's result is a new heap
\* value, a move copies the pointer
HoldsAfter(holds, made, n) ==
    IF n.k # "Assign" \/ n.left.e # "sym" \/ n.left.n \notin DOMAIN holds THEN holds
    ELSE IF n.right.e = "call" THEN [holds EXCEPT ![n.left.n] = made + 1]
    ELSE IF n.right.e = "sym" /\ n.right.n \in DOMAIN holds
         THEN [holds EXCEPT ![n.left.n] = holds[n.right.n]]
    ELSE holds

\* the function is called
OwnStart ==
    /\ phase = "destructions"
    /\ ex = Idle
    /\ ex' = [k |-> "own", b |-> sorted_blocks(fl)[1], i |-> 1, made |-> 0,
              holds |-> [n \in OwnerNames |-> 0], moved |-> {}, freed |-> {},
              deleted |-> {}, twice |-> 0, delmoved |-> "", dangling |-> ""]
    /\ UNCHANGED <<phase, ast, fl, uc, de, es, pl, ty>>

\* the run executes its next step
OwnStep ==
    /\ ex.k = "own"
    /\ ex.b # None
    /\ ex.i <= Len(fl.bh[ex.b].steps)
    /\ LET n == fl.nodes[sorted_steps(fl, ex.b)[ex.i]]
           del == n.k = "Del" /\ n.val.e = "sym" /\ n.val.n \in OwnerNames
           v == IF del THEN ex.holds[n.val.n] ELSE 0
           after == [ex EXCEPT
                        !.dangling = IF ReadBy(n) \cap ex.deleted = {} THEN @
                                     ELSE CHOOSE x \in ReadBy(n) \cap ex.deleted : TRUE,
                        !.delmoved = IF del /\ n.val.n \in ex.moved THEN n.val.n ELSE @,
                        !.twice = IF del /\ v # 0 /\ v \in ex.freed THEN v ELSE @,
                        !.freed = IF del /\ v # 0 THEN @ \cup {v} ELSE @,
                        !.deleted = IF del THEN @ \cup {n.val.n} ELSE @ \ AssignedBy(n),
                        !.moved = (@ \cup MovedBy(n)) \ AssignedBy(n),
                        !.holds = HoldsAfter(@, ex.made, n),
                        !.made = IF CreatesValue(n) THEN @ + 1 ELSE @]
       IN  /\ CreatesValue(n) => ex.made < MaxValues
           /\ IF Continuations(n, ex.b, ex.i) = {}
              THEN ex' = [after EXCEPT !.k = "ended"]
              ELSE \E c \in Continuations(n, ex.b, ex.i) :
                       ex' = [after EXCEPT !.b = c.b, !.i = c.i]
    /\ UNCHANGED <<phase, ast, fl, uc, de, es, pl, ty>>

MoveNext ==
    \/ FlowVisitFunction
    \/ UsesVisitFunction \/ UsesVisitStep \/ UsesFinish
    \/ DestrVisitFunction \/ DestrVisitStep \/ DestrFinish
    \/ OwnStart \/ OwnStep

SpecMoves == MoveSpecInit /\ [][MoveNext]_vars

\* C25: after the heap value of a binding a was moved to a binding b the
\* Destructor emits no Del for a, and so no run of the function releases a
\* heap value by a second Del.
C25_MovedValueReleasedOnce ==
    ex.k \in {"own", "ended"} => ex.delmoved = "" /\ ex.twice = 0

\* C27: after a Del(x) the Destructor inserted, no run of the function reads
\* x before x is assigned again, wherever x was declared and first assigned.
C27_NoReadAfterDel ==
    ex.k \in {"own", "ended"} => ex.dangling = ""

(***************************************************************************)
(* The scope markers of a Flow, read as the typer, the uses checker and    *)
(* the destructor inserter read them: the blocks in id order, the steps of *)
(* a block in step order.  Each of these passes opens a scope at a         *)
(* BeginScope and closes one at an EndScope (UsesChecker.visit_beginscope, *)
(* visit_endscope), so its scope depth after a prefix of the steps is the  *)
(* number of BeginScope less the number of EndScope in it.                 *)
(***************************************************************************)
RECURSIVE ScopeDepth(_, _, _)
\* the scope depth after the first k steps of order
ScopeDepth(st, order, k) ==
    IF k = 0 THEN 0
    ELSE ScopeDepth(st, order, k - 1)
         + (CASE st.nodes[order[k]].k = "BeginScope" -> 1
              [] st.nodes[order[k]].k = "EndScope" -> -1
              [] OTHER -> 0)

\* no EndScope closes a scope that is not open and every scope opened is
\* closed at the end of the function
ScopesBalanced(st) ==
    LET order == VisitOrder(st)
    IN  /\ \A k \in 1..Len(order) : ScopeDepth(st, order, k) >= 0
        /\ ScopeDepth(st, order, Len(order)) = 0

\* C26: in the CFG of every function the CFG builder lowered, BeginScope
\* and EndScope are balanced and properly nested in block-id and step
\* order, also when the TryBlock handler removed an empty trailing
\* try-continue block: the scope depth is back at its initial value at the
\* end of the function.
C26_ScopeMarkersBalanced == FlowDone => ScopesBalanced(fl)

(***************************************************************************)
(* ExpressionsEvaluator (ast_passes/expressions.py) on statements.  The    *)
(* condition of an if is the argument c or an ast.Int, which is literal    *)
(* and carries its value.                                                  *)
(***************************************************************************)
IntCond(value) == [e |-> "int", literal |-> value]

\* cond.is_literal
cond_is_literal(cond) == cond.e = "int"

RECURSIVE remove_parts(_)
\* the loop of ExpressionsEvaluator.visit_if over node.parts and the
\* removal of parts_to_remove: a part with a literal false condition goes,
\* and so does every part after one with a literal true condition
remove_parts(parts) ==
    IF parts = <<>> THEN <<>>
    ELSE LET part == Head(parts) IN
         IF part.cond.e # "none" /\ cond_is_literal(part.cond)
         THEN IF part.cond.literal # 0 THEN <<part>>
              ELSE remove_parts(Tail(parts))
         ELSE <<part>> \o remove_parts(Tail(parts))

RECURSIVE expressions_visit_suite(_)
RECURSIVE expressions_visit_parts(_)
\* ExpressionsEvaluator.visit of a statement
expressions_visit(statement) ==
    IF statement.k = "if"
    THEN [statement EXCEPT !.parts = remove_parts(expressions_visit_parts(@))]
    ELSE statement

\* part["suite"] = self.visit(part["suite"]) for every part
expressions_visit_parts(parts) ==
    [i \in 1..Len(parts) |-> [parts[i] EXCEPT !.suite = expressions_visit_suite(@)]]

\* ExpressionsEvaluator.visit_suite: the statements after a jumper are
\* dropped
expressions_visit_suite(statements) ==
    IF statements = <<>> THEN <<>>
    ELSE LET statement == expressions_visit(Head(statements)) IN
         IF statement.k \in JUMPER THEN <<statement>>
         ELSE <<statement>> \o expressions_visit_suite(Tail(statements))

(***************************************************************************)
(* The functions the two passes are run on: bodies of at most IfWeight     *)
(* statements (nested ones counted) of calls, pass, return and if          *)
(* statements of one or two conditional parts with or without an else      *)
(* part.                                                                   *)
(***************************************************************************)
IfConds == {Sym("c"), IntCond(0), IntCond(1)}

IfSimple == {ExprStmt(Call(<<>>, <<>>)), Pass, Return(NoExpr)}

RECURSIVE IfStmts(_)
RECURSIVE IfSuites(_)
\* the statements of exactly w statements
IfStmts(w) ==
    IF w < 1 THEN {}
    ELSE IF w = 1 THEN IfSimple
    ELSE {If(<<Part(c, s)>>) : c \in IfConds, s \in IfSuites(w - 1)}
         \cup UNION {{If(<<Part(c, s), Part(NoExpr, t)>>) :
                         c \in IfConds, s \in IfSuites(i), t \in IfSuites(w - 1 - i)}
                     \cup {If(<<Part(c, s), Part(d, t)>>) :
                             c \in IfConds, d \in IfConds, s \in IfSuites(i),
                             t \in IfSuites(w - 1 - i)} : i \in 1..(w - 2)}
         \cup UNION {{If(<<Part(c, s), Part(d, t), Part(NoExpr, u)>>) :
                         c \in IfConds, d \in IfConds, s \in IfSuites(ij[1]),
                         t \in IfSuites(ij[2]), u \in IfSuites(w - 1 - ij[1] - ij[2])} :
                     ij \in {p \in (1..w) \X (1..w) : p[1] + p[2] <= w - 2}}

\* the suites of exactly w statements
IfSuites(w) ==
    IF w < 1 THEN {}
    ELSE {<<s>> : s \in IfStmts(w)}
         \cup UNION {{<<s>> \o r : s \in IfStmts(i), r \in IfSuites(w - i)} : i \in 1..(w - 1)}

IfWeight == 4

IfPrograms(weight) == UNION {IfSuites(w) : w \in 1..weight}

IfSpecInit ==
    /\ phase = "parsed"
    /\ ast \in {[suite |-> s] : s \in IfPrograms(IfWeight)}
    /\ fl = FlowInit
    /\ uc = Idle
    /\ de = Idle
    /\ ex = Idle
    /\ es = Idle
    /\ pl = Idle
    /\ ty = Idle

\* ExpressionsEvaluator.visit_function
ExpressionsVisitFunction ==
    /\ phase = "parsed"
    /\ phase' = "expressions"
    /\ ast' = [ast EXCEPT !.suite = expressions_visit_suite(@)]
    /\ UNCHANGED <<fl, uc, de, ex, es, pl, ty>>

\* ImplicitsProcessor.define_variable: a variable gets the internal name
\* var.name + self.fn.generate_suffix(); the argument c is the first variable
\* the pass defines in the function
internal_name(name) == IF name = "c" THEN "c$0" ELSE name

RECURSIVE implicits_visit_suite(_)
\* ImplicitsProcessor.visit_suite and visit_if: the symbols get their
\* internal names, the statements stay as they are
implicits_visit_suite(statements) ==
    [i \in 1..Len(statements) |->
        IF statements[i].k # "if" THEN statements[i]
        ELSE [statements[i] EXCEPT !.parts =
                 [j \in 1..Len(@) |->
                     [cond |-> IF @[j].cond.e = "sym"
                               THEN [@[j].cond EXCEPT !.n = internal_name(@)]
                               ELSE @[j].cond,
                      suite |-> implicits_visit_suite(@[j].suite)]]]]

\* ImplicitsProcessor.visit_function
ImplicitsVisitFunction ==
    /\ phase = "expressions"
    /\ phase' = "implicits"
    /\ ast' = [ast EXCEPT !.suite = implicits_visit_suite(@)]
    /\ UNCHANGED <<fl, uc, de, ex, es, pl, ty>>

IfNext == ExpressionsVisitFunction \/ ImplicitsVisitFunction \/ FlowVisitFunction

SpecIf == IfSpecInit /\ [][IfNext]_vars

RECURSIVE Conditions(_)
RECURSIVE ConditionsOfParts(_)
\* the number of conditional parts in the if statements of a suite
Conditions(suite) ==
    IF suite = <<>> THEN 0
    ELSE (IF Head(suite).k = "if" THEN ConditionsOfParts(Head(suite).parts) ELSE 0)
         + Conditions(Tail(suite))

ConditionsOfParts(parts) ==
    IF parts = <<>> THEN 0
    ELSE (IF Head(parts).cond.e # "none" THEN 1 ELSE 0)
         + Conditions(Head(parts).suite) + ConditionsOfParts(Tail(parts))

\* C28: the CFG builder lowers every if statement the Expression Evaluator
\* left, an if of which only the else part remains included, without an
\* internal failure, and with one CondBranch for each conditional part that
\* remains: a part with no condition left before it is entered without a
\* test.
C28_EvaluatedIfIsLowered ==
    phase = "flow" =>
        /\ fl.crash = ""
        /\ Cardinality({i \in 1..Len(fl.nodes) : fl.nodes[i].k = "CondBranch"})
               = Conditions(ast.suite)

\* the passes whose work was carried out on function f
Executed(st, f) == {st.fns[f].done[k] : k \in 1..Len(st.fns[f].done)}

\* C29: when the last pass is over and code generation starts, each of the
\* eight passes has done its work on every function in module.functions,
\* whatever the passes did to that list while they went over it.
C29_EveryListedFunctionHadEveryPass ==
    pl.k = "done" =>
        \A k \in 1..Len(pl.functions) :
            Executed(pl, pl.functions[k]) = {PASSES[q] : q \in 1..Len(PASSES)}
=============================================================================
